---- MODULE Spec2Model ----
(***************************************************************************)
(* Swapchain lifecycle and per-frame synchronisation of vk_engine.         *)
(*                                                                         *)
(* The model follows BaseApp (src/application.rs), the helpers of          *)
(* src/engine_core.rs and the three frame loops that drive it:             *)
(* examples/cube.rs, examples/mandelbrot.rs and the older src/main.rs.     *)
(* The CPU side is the single event-loop thread; its position inside the   *)
(* MainEventsCleared handler is pc.  The GPU side is the graphics queue,   *)
(* which completes submissions in order and signals their fences.          *)
(***************************************************************************)
EXTENDS Integers, Sequences, FiniteSets, TLC

\* ---------------------------------------------------------------------------
\* Program constants
\* ---------------------------------------------------------------------------
MAX_FRAMES_IN_FLIGHT == 2

\* unsigned integers wider than the checker's are kept as their 16-bit digits,
\* lowest first: two digits for a u32, four for a u64 or usize
Digit == 2 ^ 16

RECURSIVE Digits(_, _)
Digits(x, n) == IF n = 0 THEN <<>> ELSE <<x % Digit>> \o Digits(x \div Digit, n - 1)

\* a < b, digit sequences of one length
lt(a, b) ==
    \E n \in DOMAIN a :
        /\ a[n] < b[n]
        /\ \A m \in (n + 1) .. Len(a) : a[m] = b[m]

\* u32::MAX = 4294967295, the "no fixed extent" sentinel of current_extent.
\* The widths and heights of extents are u32 values, two digits each.
U32_MAX == <<Digit - 1, Digit - 1>>

\* ---------------------------------------------------------------------------
\* Bounds of the model
\* ---------------------------------------------------------------------------
\* largest width/height a surface reports
MaxDim == 2

\* largest min_image_count / max_image_count a surface reports
MaxImageCount == 3

\* number of recreate_swapchain calls explored in one run
MaxRecreate == 1

\* most physical devices an instance enumerates
MaxDevices == 2

\* length of the memory_types array (VK_MAX_MEMORY_TYPES entries in the code)
MaxMemoryTypes == 3

\* most surface formats a surface reports
MaxFormats == 3

\* most method calls made on one ManagedBuffer or ManagedImage
MaxOps == 3

\* most queue families a physical device reports to find_queue_families
MaxFamilies == 3

\* most vertices or indices handed to BaseApp::new
MaxCount == 3

Slots == 0 .. (MAX_FRAMES_IN_FLIGHT - 1)

Variants == {"cube", "mandelbrot", "main"}

VARIABLES
    variant,          \* which frame loop drives BaseApp
    validation,       \* VALIDATION_ENABLED of the build
    pc,               \* position of the event-loop thread
    from,             \* the call site of the recreate_swapchain now running
    panicked,         \* a panic!/expect/index check fired
    current_frame,    \* frame slot of the loop
    image_index,      \* image index returned by this iteration's acquire
    in_flight,        \* in_flight[f]: fence f is signaled
    image_available,  \* image_available[f]: the semaphore carries a signal nothing waited on
    render_finished,  \* render_finished[f]: the semaphore carries a signal nothing waited on
    queue,            \* submissions pending on the graphics queue, oldest first
    command_buffers,  \* BaseApp.command_buffers.len()
    recorded,         \* command buffer indices recorded in this iteration
    submitted,        \* command buffer index submitted in this iteration
    bundle,           \* the swapchain bundle fields of BaseApp
    swapchain_status, \* what the platform thinks of bundle.swapchain
    recreations,      \* recreate_swapchain calls so far
    device_alive,     \* destroy_device has not been called
    log,              \* device calls issued by the latest recreate_swapchain or drop
    calls,            \* calls the MainEventsCleared handler has made in this run
    arg,              \* the helper function called and its arguments
    ret               \* what the calls of that helper returned, in order

\* the state of BaseApp and of the frame loop that drives it
loop_vars == <<variant, validation, pc, from, panicked, current_frame, image_index,
               in_flight, image_available, render_finished, queue, command_buffers,
               recorded, submitted, bundle, swapchain_status, recreations, device_alive,
               log, calls>>

vars == <<loop_vars, arg, ret>>

\* ---------------------------------------------------------------------------
\* Device calls, as they are written to log
\* ---------------------------------------------------------------------------
Call(op, obj, gen, idx) == [op |-> op, obj |-> obj, gen |-> gen, idx |-> idx]

RECURSIVE Flatten(_)
Flatten(ss) == IF ss = <<>> THEN <<>> ELSE Head(ss) \o Flatten(Tail(ss))

\* ---------------------------------------------------------------------------
\* Surface capabilities and window sizes the platform can report
\* ---------------------------------------------------------------------------
Dims == 1 .. MaxDim

\* vk::Extent2D of two u32 values
Extent2D(w, h) == [width |-> w, height |-> h]

SurfaceCapabilities ==
    { [current_extent |-> ce, min_image_extent |-> mn, max_image_extent |-> mx,
       min_image_count |-> lo, max_image_count |-> hi] :
        ce \in {Extent2D(U32_MAX, U32_MAX)}
                    \cup {Extent2D(Digits(w, 2), Digits(h, 2)) : w \in Dims, h \in Dims},
        mn \in {Extent2D(Digits(w, 2), Digits(h, 2)) : w \in Dims, h \in Dims},
        mx \in {Extent2D(Digits(w, 2), Digits(h, 2)) : w \in Dims, h \in Dims},
        lo \in 1 .. (MaxImageCount - 1),
        hi \in 0 .. MaxImageCount }

\* Vulkan guarantees min <= max for extents and, when the cap is set, counts
ValidCapabilities ==
    { c \in SurfaceCapabilities :
        /\ ~lt(c.max_image_extent.width, c.min_image_extent.width)
        /\ ~lt(c.max_image_extent.height, c.min_image_extent.height)
        /\ (c.max_image_count = 0 \/ c.min_image_count <= c.max_image_count) }

WindowSizes ==
    {Extent2D(Digits(w, 2), Digits(h, 2)) : w \in 0 .. (MaxDim + 1), h \in 0 .. (MaxDim + 1)}

\* ---------------------------------------------------------------------------
\* src/engine_core/swapchain.rs
\* ---------------------------------------------------------------------------
PreferredFormat == [format |-> "R8G8B8A8_SRGB", color_space |-> "SRGB_NONLINEAR"]

\* surface formats a surface can report
SurfaceFormats ==
    [format : {"R8G8B8A8_SRGB", "B8G8R8A8_SRGB"},
     color_space : {"SRGB_NONLINEAR", "EXTENDED_SRGB_LINEAR"}]

RECURSIVE SeqsUpTo(_, _)
\* the sequences over S of length at most n
SeqsUpTo(S, n) ==
    IF n = 0 THEN {<<>>}
    ELSE LET shorter == SeqsUpTo(S, n - 1)
         IN  shorter \cup {Append(q, x) : q \in {t \in shorter : Len(t) = n - 1}, x \in S}

\* a selection that always takes the head of the list
choose_swap_surface_format_first(formats) ==
    IF formats = <<>> THEN "panic" ELSE formats[1]

\* the first preferred entry, else formats[0]; indexing an empty list panics
choose_swap_surface_format(formats) ==
    LET scan[i \in 1 .. (Len(formats) + 1)] ==
            IF i > Len(formats) THEN 0
            ELSE IF /\ formats[i].format = PreferredFormat.format
                    /\ formats[i].color_space = PreferredFormat.color_space
                 THEN i
                 ELSE scan[i + 1]
    IN  IF scan[1] # 0 THEN formats[scan[1]]
        ELSE IF formats = <<>> THEN "panic"
        ELSE formats[1]

\* u32::clamp
clamp(x, lo, hi) == IF lt(x, lo) THEN lo ELSE IF lt(hi, x) THEN hi ELSE x

\* an extent taken from the window whatever the surface allows
choose_swap_extent_window(window_size, capabilities) ==
    IF capabilities.current_extent.width # U32_MAX
    THEN capabilities.current_extent
    ELSE window_size

choose_swap_extent(window_size, capabilities) ==
    IF capabilities.current_extent.width # U32_MAX
    THEN capabilities.current_extent
    ELSE Extent2D(clamp(window_size.width,
                        capabilities.min_image_extent.width,
                        capabilities.max_image_extent.width),
                  clamp(window_size.height,
                        capabilities.min_image_extent.height,
                        capabilities.max_image_extent.height))

\* ---------------------------------------------------------------------------
\* src/engine_core/phys_device.rs
\* ---------------------------------------------------------------------------
\* an Option is a sequence of at most one element
None == <<>>

Some(x) == <<x>>

\* queue family lists of a physical device: no family, one that does both,
\* graphics and present apart, graphics first or last, and graphics only
QueueFamilyLists ==
    LET family(g, p) == [graphics |-> g, present |-> p]
    IN  { <<>>,
          <<family(TRUE, TRUE)>>,
          <<family(TRUE, FALSE), family(FALSE, TRUE)>>,
          <<family(FALSE, TRUE), family(TRUE, FALSE)>>,
          <<family(TRUE, FALSE)>> }

\* find_queue_families: the first graphics family and the first family that
\* can present, returned as soon as both are known
find_queue_families(queue_family_properties) ==
    LET scan[i \in 1 .. (Len(queue_family_properties) + 1)] ==
            [graphics, present \in {None} \cup {Some(k) : k \in 0 .. Len(queue_family_properties)} |->
                IF i > Len(queue_family_properties) THEN None
                ELSE LET queue_family == queue_family_properties[i]
                         g == IF graphics = None /\ queue_family.graphics
                              THEN Some(i - 1) ELSE graphics
                         q == IF present = None /\ queue_family.present
                              THEN Some(i - 1) ELSE present
                     IN  IF g # None /\ q # None
                         THEN Some([graphics_queue |-> g[1], present_queue |-> q[1]])
                         ELSE scan[i + 1][g, q]]
    IN  scan[1][None, None]

\* what the instance and the surface report about one physical device
AllPhysicalDevices ==
    [extension_support : BOOLEAN,
     geometry_shader : BOOLEAN,
     formats : 0 .. 1,
     present_modes : 0 .. 1,
     queue_families : QueueFamilyLists,
     device_type : {"DISCRETE_GPU", "INTEGRATED_GPU"},
     max_image_dimension2_d : Dims]

\* the requirements of device_suitability a device does not meet
Shortcomings(device) ==
    {c \in {"extension", "geometry", "formats", "present_modes", "queues"} :
        \/ c = "extension" /\ ~device.extension_support
        \/ c = "geometry" /\ ~device.geometry_shader
        \/ c = "formats" /\ device.formats = 0
        \/ c = "present_modes" /\ device.present_modes = 0
        \/ c = "queues" /\ find_queue_families(device.queue_families) = None}

\* the devices explored: suitable ones with any of the queue family lists, and
\* ones that fall short in one respect, with a single family for both queues
\* unless it is the queues they lack
PhysicalDevices ==
    {d \in AllPhysicalDevices :
        \/ Shortcomings(d) = {}
        \/ Shortcomings(d) = {"queues"}
        \/ /\ Cardinality(Shortcomings(d)) = 1
           /\ Len(d.queue_families) = 1}

\* device_suitability: 0 for a device that cannot be used, else its rank
device_suitability(device) ==
    IF ~device.extension_support THEN 0
    ELSE IF \/ ~device.geometry_shader
            \/ device.formats = 0
            \/ device.present_modes = 0
         THEN 0
    ELSE IF find_queue_families(device.queue_families) = None THEN 0
    ELSE (IF device.device_type = "DISCRETE_GPU" THEN 1000 ELSE 0)
         + device.max_image_dimension2_d

\* ---------------------------------------------------------------------------
\* src/engine_core/buffer.rs, src/engine_core/textures.rs
\* ---------------------------------------------------------------------------
MemoryPropertyFlags == {"DEVICE_LOCAL", "HOST_VISIBLE"}

\* the memory_types array of the physical device's memory properties
MemoryTypeArrays == [0 .. (MaxMemoryTypes - 1) -> SUBSET MemoryPropertyFlags]

\* memory_type_bits of a resource's memory requirements
TypeFilters == 0 .. (2 ^ MaxMemoryTypes - 1)

\* (type_filter & (1 << i)) != 0
FilterBit(type_filter, i) == (type_filter \div (2 ^ i)) % 2 = 1

Ok(x) == [ok |-> TRUE, value |-> x]

Err(e) == [ok |-> FALSE, error |-> e]

\* a search that looks at the property flags only
find_memory_type_any_filter(memory_types, type_filter, properties) ==
    LET fit == {i \in DOMAIN memory_types : properties \subseteq memory_types[i]}
    IN  IF fit = {} THEN Err("No suitable memory type found!")
        ELSE LET i == CHOOSE k \in fit : \A j \in fit : k <= j
             IN  Ok(<<i, memory_types[i]>>)

\* find_memory_type of allocate_and_bind_buffer and allocate_and_bind_image:
\* the first array entry whose filter bit is set and whose flags contain the
\* requested ones
find_memory_type(memory_types, type_filter, properties) ==
    LET scan[i \in 0 .. MaxMemoryTypes] ==
            IF i \notin DOMAIN memory_types THEN Err("No suitable memory type found!")
            ELSE IF /\ FilterBit(type_filter, i)
                    /\ properties \subseteq memory_types[i]
                 THEN Ok(<<i, memory_types[i]>>)
                 ELSE scan[i + 1]
    IN  scan[0]

\* ---------------------------------------------------------------------------
\* src/engine_core.rs
\* ---------------------------------------------------------------------------
\* Iterator::max_by_key: the index of the last element with the largest key
max_by_key(keys) ==
    CHOOSE i \in DOMAIN keys :
        /\ \A j \in DOMAIN keys : keys[j] <= keys[i]
        /\ \A j \in DOMAIN keys : j > i => keys[j] < keys[i]

Panicked(message) == [result |-> "panic", message |-> message]

\* find_physical_device: the key closure leaves in `suitability` the score of
\* the device it was called on last, and that is what is compared with 0
find_physical_device(devices) ==
    IF devices = <<>> THEN Panicked("No devices with Vulkan support!")
    ELSE LET keys == [i \in DOMAIN devices |-> device_suitability(devices[i])]
             suitability == keys[Len(devices)]
             physical_device == max_by_key(keys)
         IN  IF suitability = 0 THEN Panicked("No suitable GPU could be found!")
             ELSE [result |-> "ok",
                   physical_device |-> physical_device,
                   queue_family_indices |->
                       find_queue_families(devices[physical_device].queue_families)[1]]

\* create_swapchain: the image count it asks for
image_count(capabilities) ==
    LET count == capabilities.min_image_count + 1
    IN IF capabilities.max_image_count > 0 /\ count > capabilities.max_image_count
       THEN capabilities.max_image_count
       ELSE count

\* ---------------------------------------------------------------------------
\* src/lib.rs  (init_vulkan)
\* ---------------------------------------------------------------------------
\* init_vulkan: the image count it asks for; the cap is applied when
\* min_image_count is nonzero
init_vulkan_image_count(capabilities) ==
    LET count == capabilities.min_image_count + 1
    IN IF capabilities.min_image_count > 0 /\ count > capabilities.max_image_count
       THEN capabilities.max_image_count
       ELSE count

\* init_vulkan's find_queue_families: the scan looks at a family, and unless
\* both queues are found by then "break 'outer" leaves the scan for the
\* final None
init_vulkan_find_queue_families(queue_family_properties) ==
    LET scan[i \in 1 .. (Len(queue_family_properties) + 1)] ==
            [graphics, present \in {None} \cup {Some(k) : k \in 0 .. Len(queue_family_properties)} |->
                IF i > Len(queue_family_properties) THEN None
                ELSE LET queue_family == queue_family_properties[i]
                         g == IF graphics = None /\ queue_family.graphics
                              THEN Some(i - 1) ELSE graphics
                         q == IF present = None /\ queue_family.present
                              THEN Some(i - 1) ELSE present
                     IN  IF g # None /\ q # None
                         THEN Some(<<g[1], q[1]>>)
                         ELSE None]
    IN  scan[1][None, None]

\* create_swapchain: what it derives from the surface it queries; every
\* (extent, image count) a valid surface and window size can lead to
SwapchainChoices ==
    { [swap_extent |-> choose_swap_extent(w, c), image_count |-> image_count(c)] :
        w \in WindowSizes, c \in ValidCapabilities }

\* create_swapchain: handle, extent and the swapchain's images
create_swapchain(gen, choice) ==
    [swapchain |-> gen,
     swapchain_extent |-> choice.swap_extent,
     swapchain_images |-> [i \in 1 .. choice.image_count |-> i - 1]]

\* create_swapchain_image_views: one view per swapchain image, in order
create_swapchain_image_views(gen, swapchain_images) ==
    [i \in 1 .. Len(swapchain_images) |-> [gen |-> gen, idx |-> swapchain_images[i]]]

\* create_image: image, memory, view
create_image(gen, dimensions) ==
    [gen |-> gen, width |-> dimensions[1], height |-> dimensions[2],
     image_memory |-> TRUE, memory_ptr |-> FALSE]

\* create_framebuffers with a square extent taken from the width alone
create_framebuffers_square(gen, swapchain_extent, image_views, depth_image_view) ==
    [i \in 1 .. Len(image_views) |->
        [gen |-> gen, idx |-> i - 1,
         view |-> image_views[i], depth |-> depth_image_view,
         width |-> swapchain_extent.width, height |-> swapchain_extent.width]]

\* create_framebuffers: one framebuffer per image view, sized to the extent
create_framebuffers(gen, swapchain_extent, image_views, depth_image_view) ==
    [i \in 1 .. Len(image_views) |->
        [gen |-> gen, idx |-> i - 1,
         view |-> image_views[i], depth |-> depth_image_view,
         width |-> swapchain_extent.width, height |-> swapchain_extent.height]]

\* create_sync_primitives without FenceCreateFlags::SIGNALED
create_sync_primitives_unsignaled == [f \in Slots |-> FALSE]

\* create_sync_primitives: every semaphore starts without a signal
create_semaphores == [f \in Slots |-> FALSE]

\* create_sync_primitives: every in-flight fence starts signaled
create_sync_primitives == [f \in Slots |-> TRUE]

\* ---------------------------------------------------------------------------
\* src/engine_core/buffer.rs and src/engine_core/textures.rs
\* ---------------------------------------------------------------------------
NoPanic == "none"

\* what a method call on a managed object leaves behind: the object's fields,
\* the device calls it issued and the panic message, if it panicked
Outcome(object, device_calls, panic) ==
    [object |-> object, calls |-> device_calls, panic |-> panic]

\* a map that goes to the device whatever the fields say
map_buffer_memory_unguarded(name, idx, b) ==
    Outcome([b EXCEPT !.memory_ptr = TRUE], <<Call("map", name, 0, idx)>>, NoPanic)

\* ManagedBuffer::map_buffer_memory
map_buffer_memory(name, idx, b) ==
    IF b.buffer_memory
    THEN IF b.memory_ptr
         THEN Outcome(b, <<>>, "Attempt to re-map buffer memory!")
         ELSE Outcome([b EXCEPT !.memory_ptr = TRUE], <<Call("map", name, 0, idx)>>, NoPanic)
    ELSE Outcome(b, <<>>, "Attempt to map unallocated/unbound buffer memory!")

\* ManagedBuffer::unmap_buffer_memory: memory_ptr stays as it was
unmap_buffer_memory(name, idx, b) ==
    IF b.memory_ptr
    THEN IF b.buffer_memory
         THEN Outcome(b, <<Call("unmap", name, 0, idx)>>, NoPanic)
         ELSE Outcome(b, <<>>, "called Option::unwrap() on a None value")
    ELSE Outcome(b, <<>>, "Attempt to unmap unmapped buffer memory!")

\* ManagedImage::map_image_memory
map_image_memory(name, img) ==
    IF img.image_memory
    THEN IF img.memory_ptr
         THEN Outcome(img, <<>>, "Attempt to re-map image memory!")
         ELSE Outcome([img EXCEPT !.memory_ptr = TRUE],
                      <<Call("map", name, img.gen, 0)>>, NoPanic)
    ELSE Outcome(img, <<>>, "Attempt to map unallocated/unbound image memory!")

\* ManagedImage::unmap_image_memory: memory_ptr stays as it was
unmap_image_memory(name, img) ==
    IF img.memory_ptr
    THEN IF img.image_memory
         THEN Outcome(img, <<Call("unmap", name, img.gen, 0)>>, NoPanic)
         ELSE Outcome(img, <<>>, "called Option::unwrap() on a None value")
    ELSE Outcome(img, <<>>, "Attempt to unmap unmapped image memory!")

\* a Drop that destroys the buffer while its memory is still mapped and bound
DropManagedBuffer_destroy_first(name, idx, b) ==
    <<Call("destroy", name, 0, idx)>>
    \o (IF b.memory_ptr THEN unmap_buffer_memory(name, idx, b).calls ELSE <<>>)
    \o (IF b.buffer_memory THEN <<Call("free", name, 0, idx)>> ELSE <<>>)

\* impl Drop for ManagedBuffer: unmap if mapped, free the memory, destroy
DropManagedBuffer(name, idx, b) ==
    (IF b.memory_ptr THEN unmap_buffer_memory(name, idx, b).calls ELSE <<>>)
    \o (IF b.buffer_memory THEN <<Call("free", name, 0, idx)>> ELSE <<>>)
    \o <<Call("destroy", name, 0, idx)>>

\* impl Drop for ManagedImage: unmap if mapped, free the memory, destroy the
\* view, destroy the image
DropManagedImage(name, view_name, img) ==
    (IF img.memory_ptr THEN unmap_image_memory(name, img).calls ELSE <<>>)
    \o (IF img.image_memory THEN <<Call("free", name, img.gen, 0)>> ELSE <<>>)
    \o <<Call("destroy", view_name, img.gen, 0),
         Call("destroy", name, img.gen, 0)>>

\* SyncPrims::destroy: the semaphores and the fence of every slot
SyncPrims_destroy ==
    Flatten([f \in 1 .. MAX_FRAMES_IN_FLIGHT |->
        <<Call("destroy", "image_available", 0, f - 1),
          Call("destroy", "render_finished", 0, f - 1),
          Call("destroy", "in_flight", 0, f - 1)>>])

\* ---------------------------------------------------------------------------
\* src/application.rs: the buffers BaseApp::new leaves in the struct
\* ---------------------------------------------------------------------------
\* create_vertex_buffer / create_index_buffer: device local, never mapped
vertex_buffer == [buffer_memory |-> TRUE, memory_ptr |-> FALSE]

index_buffer == [buffer_memory |-> TRUE, memory_ptr |-> FALSE]

\* a create_uniform_buffers that leaves the mapping to the caller
create_uniform_buffers_unmapped(count) ==
    [i \in 1 .. count |->
        Outcome([buffer_memory |-> TRUE, memory_ptr |-> FALSE], <<>>, NoPanic)]

\* create_uniform_buffers: count buffers with memory, each mapped as soon as
\* it is built; for every buffer what the map left behind
create_uniform_buffers(count) ==
    [i \in 1 .. count |->
        map_buffer_memory("uniform_buffer", i - 1,
                          [buffer_memory |-> TRUE, memory_ptr |-> FALSE])]

\* create_uniform_buffers(MAX_FRAMES_IN_FLIGHT): mapped at creation
uniform_buffers ==
    [i \in 1 .. MAX_FRAMES_IN_FLIGHT |->
        create_uniform_buffers(MAX_FRAMES_IN_FLIGHT)[i].object]

\* the texture image: device local, never mapped
texture == [gen |-> 0, image_memory |-> TRUE, memory_ptr |-> FALSE]

\* number of shader stages handed to create_graphics_pipeline
NumShaders == 2

\* ---------------------------------------------------------------------------
\* src/application.rs: the swapchain bundle
\* ---------------------------------------------------------------------------
\* the creation half of BaseApp::new / recreate_swapchain: the new values of
\* the bundle fields
build_bundle(gen, choice) ==
    LET sc == create_swapchain(gen, choice)
        views == create_swapchain_image_views(gen, sc.swapchain_images)
        depth == create_image(gen, <<sc.swapchain_extent.width, sc.swapchain_extent.height>>)
    IN [swapchain |-> sc.swapchain,
        swapchain_extent |-> sc.swapchain_extent,
        image_views |-> views,
        render_pass |-> gen,
        descriptor_set_layout |-> gen,
        graphics_pipeline_layout |-> gen,
        graphics_pipeline |-> gen,
        depth_image |-> depth,
        framebuffers |-> create_framebuffers(gen, sc.swapchain_extent, views, depth.gen)]

\* the device calls of that creation half, in program order
build_bundle_calls(b) ==
    <<Call("create", "swapchain", b.swapchain, 0)>>
    \o [i \in 1 .. Len(b.image_views) |->
            Call("create", "image_view", b.image_views[i].gen, b.image_views[i].idx)]
    \o <<Call("create", "render_pass", b.render_pass, 0),
         Call("create", "descriptor_set_layout", b.descriptor_set_layout, 0),
         Call("create", "pipeline_layout", b.graphics_pipeline_layout, 0)>>
    \o [i \in 1 .. NumShaders |-> Call("create", "shader_module", b.graphics_pipeline, i - 1)]
    \o <<Call("create", "pipeline", b.graphics_pipeline, 0)>>
    \o [i \in 1 .. NumShaders |-> Call("destroy", "shader_module", b.graphics_pipeline, i - 1)]
    \o <<Call("create", "depth_image", b.depth_image.gen, 0),
         Call("allocate", "depth_image", b.depth_image.gen, 0),
         Call("create", "depth_image_view", b.depth_image.gen, 0)>>
    \o [i \in 1 .. Len(b.framebuffers) |->
            Call("create", "framebuffer", b.framebuffers[i].gen, b.framebuffers[i].idx)]

\* clean_swapchain_and_dependants: the device calls
clean_swapchain_and_dependants_calls(b) ==
    [i \in 1 .. Len(b.framebuffers) |->
            Call("destroy", "framebuffer", b.framebuffers[i].gen, b.framebuffers[i].idx)]
    \o <<Call("destroy", "pipeline", b.graphics_pipeline, 0),
         Call("destroy", "pipeline_layout", b.graphics_pipeline_layout, 0),
         Call("destroy", "descriptor_set_layout", b.descriptor_set_layout, 0),
         Call("destroy", "render_pass", b.render_pass, 0)>>
    \o [i \in 1 .. Len(b.image_views) |->
            Call("destroy", "image_view", b.image_views[i].gen, b.image_views[i].idx)]
    \o <<Call("destroy", "swapchain", b.swapchain, 0)>>

\* clean_swapchain_and_dependants: the fields afterwards (both vectors are
\* drained, the plain handles keep their stale values)
clean_swapchain_and_dependants(b) ==
    [b EXCEPT !.framebuffers = <<>>, !.image_views = <<>>]

\* a recreate_swapchain that builds the new bundle before it cleans the old one
recreate_swapchain_calls_create_first(old, new) ==
    <<Call("wait_idle", "device", 0, 0)>>
    \o build_bundle_calls(new)
    \o clean_swapchain_and_dependants_calls(old)
    \o DropManagedImage("depth_image", "depth_image_view", old.depth_image)

\* a recreate_swapchain that also drops the texture with the old bundle
recreate_swapchain_calls_drop_texture(old, new) ==
    <<Call("wait_idle", "device", 0, 0)>>
    \o clean_swapchain_and_dependants_calls(old)
    \o DropManagedImage("texture", "texture_view", texture)
    \o build_bundle_calls(new)
    \o DropManagedImage("depth_image", "depth_image_view", old.depth_image)

\* recreate_swapchain: every device call of a run that returns
recreate_swapchain_calls(old, new) ==
    <<Call("wait_idle", "device", 0, 0)>>
    \o clean_swapchain_and_dependants_calls(old)
    \o build_bundle_calls(new)
    \o DropManagedImage("depth_image", "depth_image_view", old.depth_image)

\* a Drop that destroys the device ahead of the swapchain bundle
drop_calls_device_early(b, validation_enabled) ==
    <<Call("wait_idle", "device", 0, 0)>>
    \o SyncPrims_destroy
    \o <<Call("destroy", "descriptor_pool", 0, 0),
         Call("destroy", "texture_sampler", 0, 0)>>
    \o DropManagedBuffer("vertex_buffer", 0, vertex_buffer)
    \o DropManagedBuffer("index_buffer", 0, index_buffer)
    \o Flatten([i \in 1 .. Len(uniform_buffers) |->
                    DropManagedBuffer("uniform_buffer", i - 1, uniform_buffers[i])])
    \o DropManagedImage("depth_image", "depth_image_view", b.depth_image)
    \o DropManagedImage("texture", "texture_view", texture)
    \o <<Call("destroy", "command_pool", 0, 0)>>
    \o <<Call("destroy", "device", 0, 0)>>
    \o clean_swapchain_and_dependants_calls(b)
    \o (IF validation_enabled THEN <<Call("destroy", "debug_messenger", 0, 0)>> ELSE <<>>)
    \o <<Call("destroy", "surface", 0, 0),
         Call("destroy", "instance", 0, 0)>>

\* a Drop that destroys the command pool ahead of the buffers allocated beside it
drop_calls_pool_early(b, validation_enabled) ==
    <<Call("wait_idle", "device", 0, 0)>>
    \o SyncPrims_destroy
    \o <<Call("destroy", "descriptor_pool", 0, 0),
         Call("destroy", "texture_sampler", 0, 0)>>
    \o <<Call("destroy", "command_pool", 0, 0)>>
    \o DropManagedBuffer("vertex_buffer", 0, vertex_buffer)
    \o DropManagedBuffer("index_buffer", 0, index_buffer)
    \o Flatten([i \in 1 .. Len(uniform_buffers) |->
                    DropManagedBuffer("uniform_buffer", i - 1, uniform_buffers[i])])
    \o DropManagedImage("depth_image", "depth_image_view", b.depth_image)
    \o DropManagedImage("texture", "texture_view", texture)
    \o clean_swapchain_and_dependants_calls(b)
    \o <<Call("destroy", "device", 0, 0)>>
    \o (IF validation_enabled THEN <<Call("destroy", "debug_messenger", 0, 0)>> ELSE <<>>)
    \o <<Call("destroy", "surface", 0, 0),
         Call("destroy", "instance", 0, 0)>>

\* impl Drop for BaseApp: every device call, in program order
drop_calls(b, validation_enabled) ==
    <<Call("wait_idle", "device", 0, 0)>>
    \o SyncPrims_destroy
    \o <<Call("destroy", "descriptor_pool", 0, 0),
         Call("destroy", "texture_sampler", 0, 0)>>
    \o DropManagedBuffer("vertex_buffer", 0, vertex_buffer)
    \o DropManagedBuffer("index_buffer", 0, index_buffer)
    \o Flatten([i \in 1 .. Len(uniform_buffers) |->
                    DropManagedBuffer("uniform_buffer", i - 1, uniform_buffers[i])])
    \o DropManagedImage("depth_image", "depth_image_view", b.depth_image)
    \o DropManagedImage("texture", "texture_view", texture)
    \o <<Call("destroy", "command_pool", 0, 0)>>
    \o clean_swapchain_and_dependants_calls(b)
    \o <<Call("destroy", "device", 0, 0)>>
    \o (IF validation_enabled THEN <<Call("destroy", "debug_messenger", 0, 0)>> ELSE <<>>)
    \o <<Call("destroy", "surface", 0, 0),
         Call("destroy", "instance", 0, 0)>>

\* ---------------------------------------------------------------------------
\* The frame loops: examples/cube.rs, examples/mandelbrot.rs, src/main.rs
\* ---------------------------------------------------------------------------
NoImage == -1

\* what acquire_next_image / present_image hand back to the loop
ApiResults == {"Ok", "OkSuboptimal", "ErrOutOfDate", "ErrSuboptimal", "ErrOther"}

\* what the Vulkan wrapper of each loop can hand back: ash (cube.rs,
\* mandelbrot.rs) reports a suboptimal swapchain as the bool of an Ok
\* (application.rs:621), never as an Err; erupt's .result() (main.rs) is not
\* part of the sources, so both shapes are allowed there
ApiResultsOf(v) ==
    IF v = "main" THEN ApiResults ELSE ApiResults \ {"ErrSuboptimal"}

\* a call of the frame handler: its name and the arguments that matter
NoCall ==
    [op |-> "none", fence |-> NoImage, wait |-> NoImage, stage |-> "none",
     signal |-> NoImage, cb |-> NoImage, image |-> NoImage, swapchain |-> NoImage,
     result |-> "none"]

\* a match on acquire_next_image's result that carries on after out-of-date
acquire_match_ignore_ood(v, r) ==
    CASE r \in {"Ok", "OkSuboptimal", "ErrOutOfDate"} -> "ok"
      [] r = "ErrSuboptimal" -> IF v = "mandelbrot" THEN "recreate" ELSE "panic"
      [] OTHER -> "panic"

\* the match on acquire_next_image's result
acquire_match(v, r) ==
    CASE r \in {"Ok", "OkSuboptimal"} -> "ok"
      [] r = "ErrOutOfDate" -> "recreate"
      [] r = "ErrSuboptimal" -> IF v = "mandelbrot" THEN "recreate" ELSE "panic"
      [] OTHER -> "panic"

\* a match on present_image's result that retries after any error
present_match_retry_other(v, r) ==
    CASE r \in {"Ok", "OkSuboptimal"} -> "ok"
      [] OTHER -> "recreate"

\* the match on present_image's result
present_match(v, r) ==
    CASE r \in {"Ok", "OkSuboptimal"} -> "ok"
      [] r = "ErrOutOfDate" -> "recreate"
      [] r = "ErrSuboptimal" -> IF v = "cube" THEN "panic" ELSE "recreate"
      [] OTHER -> "panic"

\* the platform reports a swapchain out of date once and for all
status_after(status, r) == IF r = "ErrOutOfDate" THEN "out_of_date" ELSE status

\* every loop indexing by the acquired image
loop_buffer_index_image(v, frame, image) == image

\* the command buffer index the loop records into and submits
loop_buffer_index(v, frame, image) == IF v = "main" THEN image ELSE frame

\* the slot after a presented frame
next_frame(v, frame) ==
    IF v = "main" THEN frame % MAX_FRAMES_IN_FLIGHT
    ELSE (frame + 1) % MAX_FRAMES_IN_FLIGHT

\* the slot once recreate_swapchain has returned to its call site: the present
\* arm of cube.rs falls through to the increment, every other arm returns
frame_after_recreate(v, site, frame) ==
    IF site = "present" /\ v = "cube" THEN next_frame(v, frame) ELSE frame

\* a wait that returns at once (a zero timeout)
fence_wait_skipped(fences, fence_index) == TRUE

\* wait_for_fences(.., u64::MAX) returns once the fence is signaled
fence_wait_returns(fences, fence_index) == fences[fence_index]

\* submissions of slot f the GPU has not completed
Outstanding(f) == {i \in 1 .. Len(queue) : queue[i].slot = f}

\* submissions of command buffer c the GPU has not completed
PendingOn(c) == {i \in 1 .. Len(queue) : queue[i].cb = c}

\* a semaphore once a queue operation has waited on it
waited_on(semaphores, s) ==
    IF s \in Slots THEN [semaphores EXCEPT ![s] = FALSE] ELSE semaphores

\* a semaphore once an acquire or a submit has been told to signal it
signaled(semaphores, s) ==
    IF s \in Slots THEN [semaphores EXCEPT ![s] = TRUE] ELSE semaphores

\* vkAcquireNextImageKHR signals its semaphore when it hands out an image:
\* with SUCCESS and with SUBOPTIMAL_KHR, however the wrapper reports the latter
acquire_signals(r) == r \in {"Ok", "OkSuboptimal", "ErrSuboptimal"}

\* vkQueuePresentKHR queues its semaphore wait unless the request is refused
\* with an error other than out-of-date
present_waits(r) == r # "ErrOther"

\* wait_for_in_flight_fence(fence_index)
wait_call(fence_index) == [NoCall EXCEPT !.op = "wait", !.fence = fence_index]

\* acquire_next_image(framebuffer_index): on self.swapchain, signalling
\* image_available[framebuffer_index]; an image index comes back with Ok only
acquire_call(swapchain, framebuffer_index, r, i) ==
    [NoCall EXCEPT !.op = "acquire", !.swapchain = swapchain,
                   !.signal = framebuffer_index, !.result = r,
                   !.image = IF r \in {"Ok", "OkSuboptimal"} THEN i ELSE NoImage]

\* reset_in_flight_fence(fence_index)
reset_call(fence_index) == [NoCall EXCEPT !.op = "reset", !.fence = fence_index]

\* record_command_buffer(buffer_index, ..): begin/end on command_buffers[buffer_index]
record_call(buffer_index) == [NoCall EXCEPT !.op = "record", !.cb = buffer_index]

\* a submit that signals the fence of the other slot
submit_call_other_fence(buffer_index) ==
    [NoCall EXCEPT !.op = "submit", !.wait = buffer_index,
                   !.stage = "COLOR_ATTACHMENT_OUTPUT", !.signal = buffer_index,
                   !.cb = buffer_index,
                   !.fence = (buffer_index + 1) % MAX_FRAMES_IN_FLIGHT]

\* a submit that waits on no semaphore
submit_call_no_wait(buffer_index) ==
    [NoCall EXCEPT !.op = "submit", !.stage = "COLOR_ATTACHMENT_OUTPUT",
                   !.signal = buffer_index, !.cb = buffer_index, !.fence = buffer_index]

\* submit_drawing_command_buffer(buffer_index): everything by buffer_index
submit_call(buffer_index) ==
    [NoCall EXCEPT !.op = "submit", !.wait = buffer_index,
                   !.stage = "COLOR_ATTACHMENT_OUTPUT", !.signal = buffer_index,
                   !.cb = buffer_index, !.fence = buffer_index]

\* the queue_submit of main.rs: sync objects by slot, command buffer by image
main_submit_call(frame, image) ==
    [NoCall EXCEPT !.op = "submit", !.wait = frame,
                   !.stage = "COLOR_ATTACHMENT_OUTPUT", !.signal = frame,
                   !.cb = image, !.fence = frame]

\* the submit of the loop v
loop_submit_call(v, frame, image) ==
    IF v = "main" THEN main_submit_call(frame, loop_buffer_index(v, frame, image))
    ELSE submit_call(loop_buffer_index(v, frame, image))

\* a present of the image numbered like the slot
present_call_slot_image(swapchain, image, wait_semaphore, r) ==
    [NoCall EXCEPT !.op = "present", !.swapchain = swapchain, !.image = wait_semaphore,
                   !.wait = wait_semaphore, !.result = r]

\* present_image(image_index, wait_semaphore) on self.swapchain; the loops
\* pass render_finished[current_frame]
present_call(swapchain, image, wait_semaphore, r) ==
    [NoCall EXCEPT !.op = "present", !.swapchain = swapchain, !.image = image,
                   !.wait = wait_semaphore, !.result = r]

NoArg == [fn |-> "none"]

Init ==
    /\ variant \in Variants
    /\ validation \in BOOLEAN
    /\ pc = "idle"
    /\ from = "none"
    /\ panicked = FALSE
    /\ current_frame = 0
    /\ image_index = NoImage
    /\ in_flight = create_sync_primitives
    /\ image_available = create_semaphores
    /\ render_finished = create_semaphores
    /\ queue = <<>>
    /\ recorded = {}
    /\ submitted = NoImage
    /\ \E choice \in SwapchainChoices :
          /\ bundle = build_bundle(0, choice)
          /\ command_buffers = Len(bundle.image_views)
    /\ swapchain_status = "live"
    /\ recreations = 0
    /\ device_alive = TRUE
    /\ log = <<>>
    /\ calls = <<>>
    /\ arg = NoArg
    /\ ret = <<>>

\* the handler leaves the frame: its locals are gone
Return ==
    /\ pc' = "idle"
    /\ calls' = <<>>
    /\ image_index' = NoImage
    /\ recorded' = {}
    /\ submitted' = NoImage

\* a panic unwinds the event loop, which drops BaseApp
Panic ==
    /\ pc' = "dropping"
    /\ panicked' = TRUE

\* Event::MainEventsCleared: the handler starts and calls the fence wait
MainEventsCleared ==
    /\ UNCHANGED <<image_available, render_finished>>
    /\ pc = "idle"
    /\ pc' = "waiting"
    /\ UNCHANGED <<calls, arg, ret, variant, validation, from, panicked, current_frame, image_index,
                   in_flight, queue, command_buffers, recorded, submitted, bundle,
                   swapchain_status, recreations, device_alive, log>>

\* the wait followed at once by the reset, ahead of the acquire
wait_and_reset_in_flight_fence ==
    /\ UNCHANGED <<image_available, render_finished>>
    /\ pc = "waiting"
    /\ in_flight[current_frame]
    /\ in_flight' = [in_flight EXCEPT ![current_frame] = FALSE]
    /\ pc' = "waited"
    /\ calls' = calls \o <<wait_call(current_frame), reset_call(current_frame)>>
    /\ UNCHANGED <<arg, ret, variant, validation, from, panicked, current_frame, image_index,
                   queue, command_buffers, recorded, submitted, bundle,
                   swapchain_status, recreations, device_alive, log>>

wait_for_in_flight_fence ==
    /\ UNCHANGED <<image_available, render_finished>>
    /\ pc = "waiting"
    /\ fence_wait_returns(in_flight, current_frame)
    /\ pc' = "waited"
    /\ calls' = Append(calls, wait_call(current_frame))
    /\ UNCHANGED <<arg, ret, variant, validation, from, panicked, current_frame, image_index,
                   in_flight, queue, command_buffers, recorded, submitted, bundle,
                   swapchain_status, recreations, device_alive, log>>

acquire_next_image ==
    /\ pc = "waited"
    /\ \E r \in ApiResultsOf(variant), i \in 0 .. (Len(bundle.image_views) - 1) :
        LET arm == acquire_match(variant, r) IN
        /\ swapchain_status' = status_after(swapchain_status, r)
        /\ calls' = Append(calls, acquire_call(bundle.swapchain, current_frame, r, i))
        /\ image_available' =
              IF acquire_signals(r)
              THEN signaled(image_available,
                            acquire_call(bundle.swapchain, current_frame, r, i).signal)
              ELSE image_available
        /\ UNCHANGED render_finished
        /\ \/ /\ arm = "ok"
              /\ pc' = "acquired"
              /\ image_index' = i
              /\ UNCHANGED <<from, panicked>>
           \/ /\ arm = "recreate"
              /\ recreations < MaxRecreate
              /\ pc' = "recreate"
              /\ from' = "acquire"
              /\ UNCHANGED <<panicked, image_index>>
           \/ /\ arm = "panic"
              /\ Panic
              /\ UNCHANGED <<from, image_index>>
    /\ UNCHANGED <<arg, ret, variant, validation, current_frame, in_flight, queue,
                   command_buffers, recorded, submitted, bundle, recreations, device_alive, log>>

reset_in_flight_fence ==
    /\ UNCHANGED <<image_available, render_finished>>
    /\ pc = "acquired"
    /\ in_flight' = [in_flight EXCEPT ![current_frame] = FALSE]
    /\ pc' = "reset"
    /\ calls' = Append(calls, reset_call(current_frame))
    /\ UNCHANGED <<arg, ret, variant, validation, from, panicked, current_frame, image_index,
                   queue, command_buffers, recorded, submitted, bundle, swapchain_status,
                   recreations, device_alive, log>>

\* cube/mandelbrot: record_command_buffer(current_frame, ..);
\* main: reallocate_command_buffers and record_command_buffers when zooming
record_command_buffer ==
    /\ UNCHANGED <<image_available, render_finished>>
    /\ pc = "reset"
    /\ IF variant = "main"
       THEN \E zooming \in BOOLEAN :
              /\ command_buffers' = IF zooming THEN Len(bundle.framebuffers)
                                    ELSE command_buffers
              /\ recorded' = IF zooming THEN 0 .. (Len(bundle.framebuffers) - 1) ELSE {}
              /\ calls' = IF zooming
                          THEN calls \o [i \in 1 .. Len(bundle.framebuffers) |->
                                            record_call(i - 1)]
                          ELSE calls
              /\ pc' = "recorded"
              /\ UNCHANGED panicked
       ELSE LET buffer_index == loop_buffer_index(variant, current_frame, image_index) IN
            IF buffer_index < command_buffers
            THEN /\ recorded' = {buffer_index}
                 /\ calls' = Append(calls, record_call(buffer_index))
                 /\ pc' = "recorded"
                 /\ UNCHANGED <<command_buffers, panicked>>
            ELSE /\ Panic
                 /\ UNCHANGED <<command_buffers, recorded, submitted, calls>>
    /\ UNCHANGED <<arg, ret, variant, validation, from, current_frame, image_index, in_flight,
                   queue, submitted, bundle, swapchain_status, recreations,
                   device_alive, log>>

submit_drawing_command_buffer ==
    /\ pc = "recorded"
    /\ LET call == loop_submit_call(variant, current_frame, image_index) IN
       IF call.cb < command_buffers /\ call.fence \in Slots
       THEN /\ queue' = Append(queue, [slot |-> call.fence, cb |-> call.cb])
            /\ image_available' = waited_on(image_available, call.wait)
            /\ render_finished' = signaled(render_finished, call.signal)
            /\ submitted' = call.cb
            /\ calls' = Append(calls, call)
            /\ pc' = "submitted"
            /\ UNCHANGED panicked
       ELSE /\ Panic
            /\ UNCHANGED <<queue, submitted, calls, image_available, render_finished>>
    /\ UNCHANGED <<arg, ret, variant, validation, from, current_frame, image_index, in_flight,
                   command_buffers, recorded, bundle, swapchain_status, recreations,
                   device_alive, log>>

present_image ==
    /\ pc = "submitted"
    /\ \E r \in ApiResultsOf(variant) :
        LET arm == present_match(variant, r) IN
        /\ swapchain_status' = status_after(swapchain_status, r)
        /\ arm # "ok" => calls' = Append(calls, present_call(bundle.swapchain, image_index,
                                                           current_frame, r))
        /\ render_finished' =
              IF present_waits(r)
              THEN waited_on(render_finished,
                             present_call(bundle.swapchain, image_index, current_frame, r).wait)
              ELSE render_finished
        /\ UNCHANGED image_available
        /\ \/ /\ arm = "ok"
              /\ current_frame' = next_frame(variant, current_frame)
              /\ Return
              /\ UNCHANGED <<from, panicked>>
           \/ /\ arm = "recreate"
              /\ recreations < MaxRecreate
              /\ pc' = "recreate"
              /\ from' = "present"
              /\ UNCHANGED <<panicked, current_frame, image_index, recorded, submitted>>
           \/ /\ arm = "panic"
              /\ Panic
              /\ UNCHANGED <<from, current_frame, image_index, recorded, submitted>>
    /\ UNCHANGED <<arg, ret, variant, validation, in_flight, queue, command_buffers, bundle,
                   recreations, device_alive, log>>

\* WindowEvent::Resized, handled by cube.rs only
WindowResized ==
    /\ UNCHANGED <<image_available, render_finished>>
    /\ variant = "cube"
    /\ pc = "idle"
    /\ recreations < MaxRecreate
    /\ pc' = "recreate"
    /\ from' = "resize"
    /\ UNCHANGED <<calls, arg, ret, variant, validation, panicked, current_frame, image_index,
                   in_flight, queue, command_buffers, recorded, submitted, bundle,
                   swapchain_status, recreations, device_alive, log>>

\* WindowEvent::CloseRequested / Escape: the event loop exits and drops BaseApp
CloseRequested ==
    /\ UNCHANGED <<image_available, render_finished>>
    /\ pc = "idle"
    /\ pc' = "dropping"
    /\ UNCHANGED <<calls, arg, ret, variant, validation, from, panicked, current_frame, image_index,
                   in_flight, queue, command_buffers, recorded, submitted, bundle,
                   swapchain_status, recreations, device_alive, log>>

\* BaseApp::recreate_swapchain; device_wait_idle returns once the queue is empty
recreate_swapchain ==
    /\ UNCHANGED <<image_available, render_finished>>
    /\ pc = "recreate"
    /\ queue = <<>>
    /\ recreations' = recreations + 1
    /\ \/ \E choice \in SwapchainChoices :
            LET new == build_bundle(recreations + 1, choice) IN
            /\ bundle' = new
            /\ swapchain_status' = "live"
            /\ log' = recreate_swapchain_calls(bundle, new)
            /\ current_frame' = frame_after_recreate(variant, from, current_frame)
            /\ from' = "none"
            /\ Return
            /\ UNCHANGED panicked
       \/ \* "Could not create swapchain!"
          /\ bundle' = clean_swapchain_and_dependants(bundle)
          /\ swapchain_status' = "destroyed"
          /\ log' = <<Call("wait_idle", "device", 0, 0)>>
                    \o clean_swapchain_and_dependants_calls(bundle)
          /\ Panic
          /\ UNCHANGED <<from, current_frame, image_index, recorded, submitted, calls>>
    /\ UNCHANGED <<arg, ret, variant, validation, in_flight, queue, command_buffers,
                   device_alive>>

\* impl Drop for BaseApp; device_wait_idle returns once the queue is empty
drop ==
    /\ UNCHANGED <<image_available, render_finished>>
    /\ pc = "dropping"
    /\ queue = <<>>
    /\ log' = drop_calls(bundle, validation)
    /\ bundle' = clean_swapchain_and_dependants(bundle)
    /\ swapchain_status' = "destroyed"
    /\ device_alive' = FALSE
    /\ pc' = "dropped"
    /\ UNCHANGED <<calls, arg, ret, variant, validation, from, panicked, current_frame, image_index,
                   in_flight, queue, command_buffers, recorded, submitted, recreations>>

\* the graphics queue finishes its oldest submission and signals its fence
GpuComplete ==
    /\ UNCHANGED <<image_available, render_finished>>
    /\ queue # <<>>
    /\ in_flight' = [in_flight EXCEPT ![Head(queue).slot] = TRUE]
    /\ queue' = Tail(queue)
    /\ UNCHANGED <<calls, arg, ret, variant, validation, pc, from, panicked, current_frame, image_index,
                   command_buffers, recorded, submitted, bundle, swapchain_status, recreations,
                   device_alive, log>>

Next ==
    \/ MainEventsCleared
    \/ wait_for_in_flight_fence
    \/ acquire_next_image
    \/ reset_in_flight_fence
    \/ record_command_buffer
    \/ submit_drawing_command_buffer
    \/ present_image
    \/ WindowResized
    \/ CloseRequested
    \/ recreate_swapchain
    \/ drop
    \/ GpuComplete

Spec == Init /\ [][Next]_vars

\* ---------------------------------------------------------------------------
\* The helper functions of engine_core, called on their own
\* ---------------------------------------------------------------------------
\* window sizes and surfaces choose_swap_extent is called with; besides the
\* small extents, fixed extents with a side of 2^31 - 1 or of u32::MAX
ExtentArgs ==
    LET surfaces == {c \in ValidCapabilities :
                        c.min_image_count = 1 /\ c.max_image_count = 0}
        sides == {Digits(1, 2), Digits(2147483647, 2), U32_MAX}
    IN  [fn : {"choose_swap_extent"},
         window_size : WindowSizes,
         capabilities : surfaces \cup
            {[c EXCEPT !.current_extent = Extent2D(w, h)] :
                c \in surfaces, w \in sides, h \in sides}]

FormatArgs ==
    [fn : {"choose_swap_surface_format"}, formats : SeqsUpTo(SurfaceFormats, MaxFormats)]

DeviceArgs ==
    [fn : {"find_physical_device"}, devices : SeqsUpTo(PhysicalDevices, MaxDevices)]

MemoryArgs ==
    [fn : {"find_memory_type"},
     memory_types : MemoryTypeArrays,
     type_filter : TypeFilters,
     properties : SUBSET MemoryPropertyFlags]

\* ---------------------------------------------------------------------------
\* src/engine_core.rs  (immediate_commands, copy_buffer)
\* src/application.rs  (BaseApp::new: buffer and texture uploads)
\* ---------------------------------------------------------------------------
\* a call made while uploading: cb is the temporary command buffer it is made
\* on (0 if none); from and to are the source and destination of a copy or
\* the old and new layout of a barrier
Cmd(op, obj, cb, src, dst) ==
    [op |-> op, obj |-> obj, idx |-> 0, cb |-> cb, from |-> src, to |-> dst]

\* device calls that involve no command buffer
Plain(device_calls) ==
    [i \in DOMAIN device_calls |->
        [op |-> device_calls[i].op, obj |-> device_calls[i].obj, idx |-> device_calls[i].idx,
         cb |-> 0, from |-> "", to |-> ""]]

\* an immediate_commands that frees its command buffer before the queue is idle
immediate_commands_free_early(cb, commands) ==
    <<Cmd("allocate", "temp_command_buffer", cb, "", ""),
      Cmd("begin", "temp_command_buffer", cb, "", "")>>
    \o [i \in DOMAIN commands |-> [commands[i] EXCEPT !.cb = cb]]
    \o <<Cmd("end", "temp_command_buffer", cb, "", ""),
         Cmd("submit", "temp_command_buffer", cb, "", ""),
         Cmd("free", "temp_command_buffer", cb, "", ""),
         Cmd("queue_wait_idle", "graphics_queue", 0, "", "")>>

\* immediate_commands: allocate one command buffer (the cb-th the pool hands
\* out), begin, let the closure record, end, submit without a fence, wait
\* for the queue to idle, free
immediate_commands(cb, commands) ==
    <<Cmd("allocate", "temp_command_buffer", cb, "", ""),
      Cmd("begin", "temp_command_buffer", cb, "", "")>>
    \o [i \in DOMAIN commands |-> [commands[i] EXCEPT !.cb = cb]]
    \o <<Cmd("end", "temp_command_buffer", cb, "", ""),
         Cmd("submit", "temp_command_buffer", cb, "", ""),
         Cmd("queue_wait_idle", "graphics_queue", 0, "", ""),
         Cmd("free", "temp_command_buffer", cb, "", "")>>

\* copy_buffer: one cmd_copy_buffer in an immediate submission
copy_buffer(cb, src_buffer, dst_buffer) ==
    immediate_commands(cb, <<Cmd("cmd_copy_buffer", dst_buffer, 0, src_buffer, dst_buffer)>>)

ImageLayouts == {"UNDEFINED", "TRANSFER_DST_OPTIMAL", "SHADER_READ_ONLY_OPTIMAL", "GENERAL"}

\* a transition_image_layout that records the barrier for any pair of layouts
transition_image_layout_any(cb, image, old_layout, new_layout) ==
    Outcome(new_layout,
            immediate_commands(cb, <<Cmd("cmd_pipeline_barrier", image, 0,
                                         old_layout, new_layout)>>),
            NoPanic)

\* BaseApp::new's transition_image_layout: the two supported transitions
\* record a barrier in an immediate submission, any other pair panics first
transition_image_layout(cb, image, old_layout, new_layout) ==
    IF \/ old_layout = "UNDEFINED" /\ new_layout = "TRANSFER_DST_OPTIMAL"
       \/ old_layout = "TRANSFER_DST_OPTIMAL" /\ new_layout = "SHADER_READ_ONLY_OPTIMAL"
    THEN Outcome(new_layout,
                 immediate_commands(cb, <<Cmd("cmd_pipeline_barrier", image, 0,
                                              old_layout, new_layout)>>),
                 NoPanic)
    ELSE Outcome(old_layout, <<>>, "Image layout transition not supported!")

\* BaseApp::new's copy_buffer_to_image: the image is declared to be in
\* TRANSFER_DST_OPTIMAL
copy_buffer_to_image(cb, buffer, image) ==
    immediate_commands(cb, <<Cmd("cmd_copy_buffer_to_image", image, 0,
                                 buffer, "TRANSFER_DST_OPTIMAL")>>)

\* create_staging_buffer followed by map_buffer_memory and
\* write_vec_to_buffer: the calls made, the staging buffer is left mapped
filled_staging_buffer(name) ==
    LET mapped == map_buffer_memory(name, 0, [buffer_memory |-> TRUE, memory_ptr |-> FALSE])
    IN  Outcome(mapped.object,
                Plain(<<Call("create", name, 0, 0)>> \o mapped.calls)
                \o <<Cmd("write_vec_to_buffer", name, 0, "", "")>>,
                mapped.panic)

\* BaseApp::new from the vertex buffer to the sync primitives: every call it
\* makes, in order; a staging buffer is dropped where its block ends
BaseApp_new_calls ==
    LET vertex_staging == filled_staging_buffer("vertex_staging")
        index_staging == filled_staging_buffer("index_staging")
        tex_staging == filled_staging_buffer("tex_staging")
        to_transfer == transition_image_layout(3, "texture", "UNDEFINED",
                                               "TRANSFER_DST_OPTIMAL")
        to_shader == transition_image_layout(5, "texture", "TRANSFER_DST_OPTIMAL",
                                             "SHADER_READ_ONLY_OPTIMAL")
    IN  Plain(<<Call("create", "vertex_buffer", 0, 0)>>)
        \o vertex_staging.calls
        \o copy_buffer(1, "vertex_staging", "vertex_buffer")
        \o Plain(DropManagedBuffer("vertex_staging", 0, vertex_staging.object))
        \o Plain(<<Call("create", "index_buffer", 0, 0)>>)
        \o index_staging.calls
        \o copy_buffer(2, "index_staging", "index_buffer")
        \o Plain(DropManagedBuffer("index_staging", 0, index_staging.object))
        \o Plain(Flatten([i \in 1 .. MAX_FRAMES_IN_FLIGHT |->
                <<Call("create", "uniform_buffer", 0, i - 1)>>
                \o create_uniform_buffers(MAX_FRAMES_IN_FLIGHT)[i].calls]))
        \o Plain(<<Call("allocate", "command_buffers", 0, 0),
                   Call("create", "texture", 0, 0)>>)
        \o tex_staging.calls
        \o to_transfer.calls
        \o copy_buffer_to_image(4, "tex_staging", "texture")
        \o to_shader.calls
        \o Plain(DropManagedBuffer("tex_staging", 0, tex_staging.object))
        \o Plain(<<Call("create", "texture_sampler", 0, 0),
                   Call("create", "descriptor_pool", 0, 0),
                   Call("allocate", "descriptor_sets", 0, 0)>>)
        \o <<Cmd("update_descriptor_sets", "texture", 0, "", "SHADER_READ_ONLY_OPTIMAL")>>
        \o Plain(Flatten([f \in 1 .. MAX_FRAMES_IN_FLIGHT |->
                <<Call("create", "image_available", 0, f - 1),
                  Call("create", "render_finished", 0, f - 1),
                  Call("create", "in_flight", 0, f - 1)>>]))

\* the layout an image is in once the device calls given have been made: a
\* barrier takes effect when its command buffer is submitted, and one whose
\* old layout is neither UNDEFINED nor the image's layout leaves it invalid
RECURSIVE image_layout(_, _)
image_layout(image, device_calls) ==
    IF device_calls = <<>> THEN "UNDEFINED"
    ELSE LET n == Len(device_calls)
             last == device_calls[n]
             before == image_layout(image, SubSeq(device_calls, 1, n - 1))
             barriers == {i \in 1 .. n :
                            /\ device_calls[i].op = "cmd_pipeline_barrier"
                            /\ device_calls[i].obj = image
                            /\ device_calls[i].cb = last.cb}
         IN  IF last.op = "submit" /\ barriers # {}
             THEN LET b == device_calls[CHOOSE i \in barriers : TRUE]
                  IN  IF b.from \in {"UNDEFINED", before} THEN b.to ELSE "invalid"
             ELSE before

\* ---------------------------------------------------------------------------
\* src/application.rs  (BaseApp::new: the sizes of the uploads)
\* ---------------------------------------------------------------------------
\* a + b in as many digits as a has, the carry out of the top digit dropped
RECURSIVE AddCarry(_, _, _)
AddCarry(a, b, carry) ==
    IF a = <<>> THEN <<>>
    ELSE LET sum == Head(a) + Head(b) + carry
         IN  <<sum % Digit>> \o AddCarry(Tail(a), Tail(b), sum \div Digit)

\* a * k in as many digits as a has, by doubling
RECURSIVE wrapping_mul(_, _)
wrapping_mul(a, k) ==
    IF k = 0 THEN [i \in DOMAIN a |-> 0]
    ELSE LET half == wrapping_mul(a, k \div 2)
             doubled == AddCarry(half, half, 0)
         IN  IF k % 2 = 1 THEN AddCarry(doubled, a, 0) ELSE doubled

\* "as u64" of a u32
as_u64(a) == a \o <<0, 0>>

\* load_image_as_rgba_samples: four bytes of samples for each of the w * h
\* pixels of the image, with the dimensions
load_image_as_rgba_samples(w, h) ==
    [img_samples |-> wrapping_mul(wrapping_mul(Digits(w, 4), h), 4), w |-> w, h |-> h]

\* how the build treats integer overflow: overflow-checks on (dev profile) or
\* off (release profile)
Builds == {"debug", "release"}

\* BaseApp::new, texture staging buffer: memory_size is (w * h * 4) as u64
\* with the product taken in u32; written is what write_vec_to_buffer copies,
\* img_samples.len() bytes
texture_staging(build, w, h) ==
    LET loaded == load_image_as_rgba_samples(w, h)
        exact == wrapping_mul(wrapping_mul(Digits(w, 4), h), 4)
        overflows == exact[3] # 0 \/ exact[4] # 0
        product == wrapping_mul(wrapping_mul(Digits(w, 2), h), 4)
    IN  IF build = "debug" /\ overflows
        THEN [memory_size |-> Digits(0, 4), written |-> Digits(0, 4),
              panic |-> "attempt to multiply with overflow"]
        ELSE [memory_size |-> as_u64(product), written |-> loaded.img_samples,
              panic |-> NoPanic]

\* BaseApp::new, vertex upload: the sizes of the vertex buffer, of its staging
\* buffer and of the copy
vertex_upload(size_of_VertexType, len) ==
    [dst |-> size_of_VertexType * len,
     staging |-> size_of_VertexType * len,
     copy |-> size_of_VertexType * len]

\* BaseApp::new, index upload: create_index_buffer sizes the buffer from the
\* count, the staging buffer and the copy are sized in BaseApp::new
index_upload(size_of_IndexType, len) ==
    [dst |-> size_of_IndexType * len,
     staging |-> size_of_IndexType * len,
     copy |-> size_of_IndexType * len]

\* surfaces that differ in their image counts only
CountCapabilities ==
    { c \in ValidCapabilities :
        /\ c.current_extent = Extent2D(Digits(1, 2), Digits(1, 2))
        /\ c.min_image_extent = Extent2D(Digits(1, 2), Digits(1, 2))
        /\ c.max_image_extent = Extent2D(Digits(1, 2), Digits(1, 2)) }

ImageCountArgs ==
    [fn : {"create_swapchain::image_count", "init_vulkan::image_count"},
     capabilities : CountCapabilities]

\* every way up to MaxFamilies families can support graphics and presentation
QueueFamilyArgs ==
    [fn : {"find_queue_families", "init_vulkan::find_queue_families"},
     queue_family_properties :
        SeqsUpTo([graphics : BOOLEAN, present : BOOLEAN], MaxFamilies)]

\* BaseApp::new takes the uploads' inputs from the caller; the order of its
\* calls does not depend on them
UploadArgs == [fn : {"BaseApp::new"}]

TransitionArgs ==
    [fn : {"transition_image_layout"}, old_layout : ImageLayouts, new_layout : ImageLayouts]

\* texture dimensions: small ones, and ones whose byte count needs more than
\* 32 bits
TextureDims == (1 .. MaxDim) \cup {2 ^ 15, 2 ^ 16 - 1}

TextureArgs == [fn : {"texture_staging"}, build : Builds, w : TextureDims, h : TextureDims]

\* size_of of the vertex types of the examples (Vec2; Vec3 with Vec2) and of
\* the two index types
UploadSizeArgs ==
    [fn : {"vertex_upload"}, size_of : {8, 20}, len : 0 .. MaxCount]
    \cup [fn : {"index_upload"}, size_of : {2, 4}, len : 0 .. MaxCount]

\* managed buffers as they can be: mapped memory is allocated memory
ManagedBuffers ==
    {b \in [buffer_memory : BOOLEAN, memory_ptr : BOOLEAN] : b.memory_ptr => b.buffer_memory}

ManagedImages ==
    {img \in [gen : {0}, image_memory : BOOLEAN, memory_ptr : BOOLEAN] :
        img.memory_ptr => img.image_memory}

ManagedOps == {"map", "unmap", "drop"}

\* a managed object and the methods called on it, in order
ManagedArgs ==
    [fn : {"ManagedBuffer"}, object : ManagedBuffers, ops : SeqsUpTo(ManagedOps, MaxOps)]
    \cup [fn : {"ManagedImage"}, object : ManagedImages, ops : SeqsUpTo(ManagedOps, MaxOps)]

\* a helper is about to be called; the frame loop has not started
HelperInit ==
    /\ variant = "cube"
    /\ validation = FALSE
    /\ pc = "idle"
    /\ from = "none"
    /\ panicked = FALSE
    /\ current_frame = 0
    /\ image_index = NoImage
    /\ in_flight = create_sync_primitives
    /\ image_available = create_semaphores
    /\ render_finished = create_semaphores
    /\ queue = <<>>
    /\ recorded = {}
    /\ submitted = NoImage
    /\ bundle = build_bundle(0, [swap_extent |-> Extent2D(Digits(1, 2), Digits(1, 2)), image_count |-> 2])
    /\ command_buffers = Len(bundle.image_views)
    /\ swapchain_status = "live"
    /\ recreations = 0
    /\ device_alive = TRUE
    /\ log = <<>>
    /\ calls = <<>>
    /\ arg \in ExtentArgs \cup FormatArgs \cup DeviceArgs \cup MemoryArgs
                \cup ManagedArgs \cup ImageCountArgs \cup QueueFamilyArgs
                \cup UploadArgs \cup TransitionArgs \cup TextureArgs \cup UploadSizeArgs
    /\ ret = <<>>

call_choose_swap_extent ==
    /\ arg.fn = "choose_swap_extent"
    /\ ret = <<>>
    /\ ret' = <<choose_swap_extent(arg.window_size, arg.capabilities)>>
    /\ UNCHANGED <<loop_vars, arg>>

\* create_swapchain selects the format anew for every swapchain it builds
call_choose_swap_surface_format ==
    /\ arg.fn = "choose_swap_surface_format"
    /\ Len(ret) < 2
    /\ ret' = Append(ret, choose_swap_surface_format(arg.formats))
    /\ UNCHANGED <<loop_vars, arg>>

call_find_physical_device ==
    /\ arg.fn = "find_physical_device"
    /\ ret = <<>>
    /\ ret' = <<find_physical_device(arg.devices)>>
    /\ UNCHANGED <<loop_vars, arg>>

call_find_memory_type ==
    /\ arg.fn = "find_memory_type"
    /\ ret = <<>>
    /\ ret' = <<find_memory_type(arg.memory_types, arg.type_filter, arg.properties)>>
    /\ UNCHANGED <<loop_vars, arg>>

call_image_count ==
    /\ arg.fn = "create_swapchain::image_count"
    /\ ret = <<>>
    /\ ret' = <<image_count(arg.capabilities)>>
    /\ UNCHANGED <<loop_vars, arg>>

call_init_vulkan_image_count ==
    /\ arg.fn = "init_vulkan::image_count"
    /\ ret = <<>>
    /\ ret' = <<init_vulkan_image_count(arg.capabilities)>>
    /\ UNCHANGED <<loop_vars, arg>>

call_find_queue_families ==
    /\ arg.fn = "find_queue_families"
    /\ ret = <<>>
    /\ ret' = <<find_queue_families(arg.queue_family_properties)>>
    /\ UNCHANGED <<loop_vars, arg>>

call_init_vulkan_find_queue_families ==
    /\ arg.fn = "init_vulkan::find_queue_families"
    /\ ret = <<>>
    /\ ret' = <<init_vulkan_find_queue_families(arg.queue_family_properties)>>
    /\ UNCHANGED <<loop_vars, arg>>

\* BaseApp::new makes its next call
BaseApp_new_step ==
    /\ arg.fn = "BaseApp::new"
    /\ Len(ret) < Len(BaseApp_new_calls)
    /\ ret' = Append(ret, BaseApp_new_calls[Len(ret) + 1])
    /\ UNCHANGED <<loop_vars, arg>>

call_transition_image_layout ==
    /\ arg.fn = "transition_image_layout"
    /\ ret = <<>>
    /\ ret' = <<transition_image_layout(1, "texture", arg.old_layout, arg.new_layout)>>
    /\ UNCHANGED <<loop_vars, arg>>

call_texture_staging ==
    /\ arg.fn = "texture_staging"
    /\ ret = <<>>
    /\ ret' = <<texture_staging(arg.build, arg.w, arg.h)>>
    /\ UNCHANGED <<loop_vars, arg>>

call_vertex_upload ==
    /\ arg.fn = "vertex_upload"
    /\ ret = <<>>
    /\ ret' = <<vertex_upload(arg.size_of, arg.len)>>
    /\ UNCHANGED <<loop_vars, arg>>

call_index_upload ==
    /\ arg.fn = "index_upload"
    /\ ret = <<>>
    /\ ret' = <<index_upload(arg.size_of, arg.len)>>
    /\ UNCHANGED <<loop_vars, arg>>

\* the next method called on the managed object
NextOp == arg.ops[Len(ret) + 1]

\* the object as the calls made so far left it
Managed == IF ret = <<>> THEN arg.object ELSE ret[Len(ret)].object

\* the object is still there: no call panicked and it was not dropped
Usable ==
    IF ret = <<>> THEN TRUE
    ELSE /\ ret[Len(ret)].panic = NoPanic
         /\ arg.ops[Len(ret)] # "drop"

\* map, unmap and drop called on a ManagedBuffer
call_managed_buffer ==
    /\ arg.fn = "ManagedBuffer"
    /\ Len(ret) < Len(arg.ops)
    /\ Usable
    /\ ret' = Append(ret,
          CASE NextOp = "map" -> map_buffer_memory("buffer", 0, Managed)
            [] NextOp = "unmap" -> unmap_buffer_memory("buffer", 0, Managed)
            [] NextOp = "drop" ->
                  Outcome(Managed, DropManagedBuffer("buffer", 0, Managed), NoPanic))
    /\ UNCHANGED <<loop_vars, arg>>

\* map, unmap and drop called on a ManagedImage
call_managed_image ==
    /\ arg.fn = "ManagedImage"
    /\ Len(ret) < Len(arg.ops)
    /\ Usable
    /\ ret' = Append(ret,
          CASE NextOp = "map" -> map_image_memory("image", Managed)
            [] NextOp = "unmap" -> unmap_image_memory("image", Managed)
            [] NextOp = "drop" ->
                  Outcome(Managed, DropManagedImage("image", "image_view", Managed), NoPanic))
    /\ UNCHANGED <<loop_vars, arg>>

HelperNext ==
    \/ call_managed_buffer
    \/ call_managed_image
    \/ call_choose_swap_extent
    \/ call_choose_swap_surface_format
    \/ call_find_physical_device
    \/ call_find_memory_type
    \/ call_image_count
    \/ call_init_vulkan_image_count
    \/ call_find_queue_families
    \/ call_init_vulkan_find_queue_families
    \/ BaseApp_new_step
    \/ call_transition_image_layout
    \/ call_texture_staging
    \/ call_vertex_upload
    \/ call_index_upload

HelperSpec == HelperInit /\ [][HelperNext]_vars

\* the GPU finishes what it was given, and a wait that can return does
LiveSpec == Spec /\ WF_vars(GpuComplete) /\ WF_vars(wait_for_in_flight_fence)

TypeOK ==
    /\ variant \in Variants
    /\ validation \in BOOLEAN
    /\ pc \in {"idle", "waiting", "waited", "acquired", "reset", "recorded",
               "submitted", "recreate", "dropping", "dropped"}
    /\ from \in {"none", "acquire", "present", "resize"}
    /\ panicked \in BOOLEAN
    /\ current_frame \in Slots
    /\ image_index \in {NoImage} \cup (0 .. (MaxImageCount - 1))
    /\ in_flight \in [Slots -> BOOLEAN]
    /\ image_available \in [Slots -> BOOLEAN]
    /\ render_finished \in [Slots -> BOOLEAN]
    /\ command_buffers \in 1 .. MaxImageCount
    /\ recorded \subseteq 0 .. (MaxImageCount - 1)
    /\ submitted \in {NoImage} \cup (0 .. (MaxImageCount - 1))
    /\ swapchain_status \in {"live", "out_of_date", "destroyed"}
    /\ recreations \in 0 .. MaxRecreate
    /\ device_alive \in BOOLEAN
    /\ \A i \in DOMAIN calls :
          calls[i].op \in {"wait", "acquire", "reset", "record", "submit", "present"}

\* ---------------------------------------------------------------------------
\* Frame-slot fence discipline
\* ---------------------------------------------------------------------------
\* C1: every slot has at most one submitted-but-unsignaled command buffer, and
\* from the moment the wait on slot f returned until slot f is submitted the
\* slot has nothing outstanding: no second submit without an observed signal.
C1_FenceDiscipline ==
    /\ \A f \in Slots : Cardinality(Outstanding(f)) <= 1
    /\ pc \in {"waited", "acquired", "reset", "recorded"}
          => Outstanding(current_frame) = {}

\* both slots have work in flight after a recreation
C1_Witness ==
    /\ pc = "submitted"
    /\ recreations > 0
    /\ \A f \in Slots : Cardinality(Outstanding(f)) = 1

\* C2: at the start of every iteration the current slot's fence is signaled or
\* has a submission that will signal it; a fence that is reset with nothing
\* submitted exists only after a valid acquire of the running iteration.
C2_FenceNeverLeftReset ==
    /\ pc \in {"idle", "waiting"}
          => (in_flight[current_frame] \/ Outstanding(current_frame) # {})
    /\ \A f \in Slots :
          (~in_flight[f] /\ Outstanding(f) = {})
              => /\ f = current_frame
                 /\ image_index # NoImage
                 /\ pc \in {"reset", "recorded"} \/ panicked

\* an out-of-date acquire on slot 1 abandons the iteration with the slot's
\* fence still signaled
C2_Witness ==
    /\ pc = "recreate"
    /\ from = "acquire"
    /\ current_frame = 1
    /\ in_flight[current_frame]

\* C3: a loop blocked in the fence wait of its iteration gets past it.
C3_WaitReturns == (pc = "waiting") ~> (pc = "waited")

\* the wait on slot 1 returned after a recreation, with slot 0 still pending
C3_Witness ==
    /\ pc = "waited"
    /\ current_frame = 1
    /\ recreations > 0
    /\ Outstanding(0) # {}

\* every field of the bundle holds the objects of generation gen
BundleOf(gen) ==
    /\ bundle.swapchain = gen
    /\ bundle.render_pass = gen
    /\ bundle.descriptor_set_layout = gen
    /\ bundle.graphics_pipeline_layout = gen
    /\ bundle.graphics_pipeline = gen
    /\ bundle.depth_image.gen = gen
    /\ bundle.image_views # <<>>
    /\ \A i \in DOMAIN bundle.image_views : bundle.image_views[i].gen = gen
    /\ Len(bundle.framebuffers) = Len(bundle.image_views)
    /\ \A i \in DOMAIN bundle.framebuffers : bundle.framebuffers[i].gen = gen

\* C4: whenever the loop is about to acquire, the swapchain it will use was
\* never reported out of date nor destroyed, and the whole bundle is the one
\* built by the latest recreate_swapchain.
C4_AcquireOnRebuiltBundle ==
    pc \in {"waiting", "waited"}
        => swapchain_status = "live" /\ BundleOf(recreations)

\* mandelbrot.rs, which recreates only on an acquire or present result, is
\* about to acquire again on the rebuilt bundle
C4_Witness ==
    /\ pc = "waited"
    /\ variant = "mandelbrot"
    /\ recreations = 1
    /\ swapchain_status = "live"

\* ---------------------------------------------------------------------------
\* Swapchain bundle recreation
\* ---------------------------------------------------------------------------
\* the objects clean_swapchain_and_dependants destroys, as named in log
CleanedObjects ==
    {"framebuffer", "pipeline", "pipeline_layout", "descriptor_set_layout",
     "render_pass", "image_view", "swapchain"}

\* the depth image of the bundle, a ManagedImage
DepthObjects == {"depth_image", "depth_image_view"}

BundleObjects == CleanedObjects \cup DepthObjects

\* positions in log of the calls that release an object named in objs
Destroys(objs) ==
    {i \in DOMAIN log : log[i].op \in {"destroy", "free", "unmap"} /\ log[i].obj \in objs}

\* positions in log of the calls that make an object named in objs
Creates(objs) ==
    {i \in DOMAIN log : log[i].op \in {"create", "allocate"} /\ log[i].obj \in objs}

\* recreate_swapchain has run and left its calls in log: the handler is back
\* at the event loop, or unwinding from a failed creation, and the device is
\* still idle (log changes nowhere else while the device lives)
RecreateLogged ==
    /\ device_alive
    /\ pc \in {"idle", "dropping"}
    /\ queue = <<>>
    /\ log # <<>>

\* C5 as stated: after the idle wait every object of the old bundle, the depth
\* image included, is destroyed before any object of the new bundle is created.
C5_Original ==
    RecreateLogged =>
        /\ log[1] = Call("wait_idle", "device", 0, 0)
        /\ \A d \in Destroys(BundleObjects), c \in Creates(BundleObjects) : d < c

\* C5: recreate_swapchain waits for the device first; it destroys the old
\* framebuffers, pipeline, pipeline layout, descriptor-set layout, render pass,
\* image views and swapchain before it creates any object of the new bundle;
\* the old depth image is released in the same call, but only after every
\* object of the new bundle, the new depth image included, has been created.
C5_RecreateOrder ==
    RecreateLogged =>
        /\ log[1] = Call("wait_idle", "device", 0, 0)
        /\ \A i \in DOMAIN log : i > 1 => log[i].op # "wait_idle"
        /\ \A d \in Destroys(BundleObjects) : log[d].gen = recreations - 1
        /\ \A c \in Creates(BundleObjects) : log[c].gen = recreations
        /\ \A o \in CleanedObjects \ {"framebuffer", "image_view"} : Destroys({o}) # {}
        /\ \A d \in Destroys(CleanedObjects), c \in Creates(BundleObjects) : d < c
        /\ \A d \in Destroys(DepthObjects), c \in Creates(BundleObjects) : c < d
        /\ Creates(BundleObjects) # {}
              => /\ \A o \in BundleObjects : Creates({o}) # {} /\ Destroys({o}) # {}
                 /\ Destroys(DepthObjects) = (Len(log) - 2) .. Len(log)

\* a recreation returned: the old depth image went after the new framebuffers
\* were made
C5_Witness ==
    /\ RecreateLogged
    /\ pc = "idle"
    /\ recreations >= 1
    /\ \E d \in Destroys({"depth_image"}), c \in Creates({"framebuffer"}) : c < d

\* C6: whenever the bundle exists, there is one framebuffer per image view, in
\* the same order, and every framebuffer has the width and height of the
\* bundle's swapchain_extent.
C6_FramebuffersMatchBundle ==
    /\ Len(bundle.framebuffers) = Len(bundle.image_views)
    /\ swapchain_status # "destroyed" => Len(bundle.framebuffers) >= 1
    /\ \A i \in DOMAIN bundle.framebuffers :
          /\ bundle.framebuffers[i].view = bundle.image_views[i]
          /\ bundle.framebuffers[i].width = bundle.swapchain_extent.width
          /\ bundle.framebuffers[i].height = bundle.swapchain_extent.height

\* a recreation built several framebuffers for an extent that is not square
C6_Witness ==
    /\ recreations > 0
    /\ swapchain_status = "live"
    /\ Len(bundle.framebuffers) >= 2
    /\ bundle.swapchain_extent.width # bundle.swapchain_extent.height
    /\ bundle.framebuffers[1].gen = recreations

\* ---------------------------------------------------------------------------
\* Teardown
\* ---------------------------------------------------------------------------
\* every object made from the logical device, as named in log
DeviceDependents ==
    BundleObjects
    \cup {"image_available", "render_finished", "in_flight", "descriptor_pool",
          "texture_sampler", "vertex_buffer", "index_buffer", "uniform_buffer",
          "texture", "texture_view", "command_pool", "shader_module"}

\* positions in log of destroy_device
DestroyDevice == {i \in DOMAIN log : log[i].obj = "device" /\ log[i].op = "destroy"}

\* C7: while the device lives no call has destroyed it; once it is destroyed
\* the program is past Drop with nothing left on the queue, destroy_device was
\* called once, and every destroy, free or unmap of a dependent came before it.
C7_DeviceDestroyedLast ==
    /\ device_alive => DestroyDevice = {}
    /\ ~device_alive =>
          /\ pc = "dropped"
          /\ queue = <<>>
          /\ Cardinality(DestroyDevice) = 1
          /\ \A p \in DestroyDevice, i \in DOMAIN log :
                log[i].obj \in DeviceDependents => i < p
          /\ \A o \in DeviceDependents \ {"shader_module", "framebuffer", "image_view"} :
                Destroys({o}) # {}

\* BaseApp was dropped by a close request after a recreation
C7_Witness ==
    /\ pc = "dropped"
    /\ ~device_alive
    /\ ~panicked
    /\ recreations > 0
    /\ Destroys({"framebuffer"}) # {}

\* the step of the stated teardown order a call of Drop belongs to: the depth
\* image is part of the swapchain bundle; the descriptor pool and the texture
\* sampler are steps the stated order does not name
TeardownStage(c) ==
    CASE c.op = "wait_idle" -> 1
      [] c.obj \in {"image_available", "render_finished", "in_flight"} -> 2
      [] c.obj = "vertex_buffer" -> 3
      [] c.obj = "index_buffer" -> 4
      [] c.obj = "uniform_buffer" -> 5
      [] c.obj \in {"texture", "texture_view"} -> 6
      [] c.obj = "command_pool" -> 7
      [] c.obj \in BundleObjects -> 8
      [] c.obj = "device" -> 9
      [] c.obj = "debug_messenger" -> 10
      [] c.obj = "surface" -> 11
      [] c.obj = "instance" -> 12
      [] OTHER -> 0

\* the statement of Drop a call belongs to, in program order
DropStage(c) ==
    CASE c.op = "wait_idle" -> 1
      [] c.obj \in {"image_available", "render_finished", "in_flight"} -> 2
      [] c.obj = "descriptor_pool" -> 3
      [] c.obj = "texture_sampler" -> 4
      [] c.obj = "vertex_buffer" -> 5
      [] c.obj = "index_buffer" -> 6
      [] c.obj = "uniform_buffer" -> 7
      [] c.obj \in DepthObjects -> 8
      [] c.obj \in {"texture", "texture_view"} -> 9
      [] c.obj = "command_pool" -> 10
      [] c.obj \in CleanedObjects -> 11
      [] c.obj = "device" -> 12
      [] c.obj = "debug_messenger" -> 13
      [] c.obj = "surface" -> 14
      [] c.obj = "instance" -> 15
      [] OTHER -> 0

\* C8 as stated: the calls of Drop start with the idle wait and go through
\* the steps sync primitives, vertex, index, uniform buffers, texture, command
\* pool, swapchain bundle (the depth image with it), device, debug messenger,
\* surface, instance in that order; every step happens, the debug messenger's
\* exactly when validation is on.
C8_Original ==
    pc = "dropped" =>
        LET named == SelectSeq(log, LAMBDA c : TeardownStage(c) # 0)
            stage == [i \in DOMAIN named |-> TeardownStage(named[i])]
        IN
        /\ log[1] = Call("wait_idle", "device", 0, 0)
        /\ \A i \in DOMAIN stage : i > 1 => stage[i - 1] <= stage[i] /\ stage[i] # 1
        /\ \A t \in (1 .. 12) \ {10} : \E i \in DOMAIN stage : stage[i] = t
        /\ validation <=> (\E i \in DOMAIN stage : stage[i] = 10)

\* C8: every call of Drop belongs to one of its statements, and the calls
\* start with the idle wait and go through sync primitives, descriptor pool,
\* texture sampler, vertex, index, uniform buffers, the bundle's depth image,
\* texture, command pool, the rest of the swapchain bundle, device, debug
\* messenger, surface, instance in that order; every step happens, the debug
\* messenger's exactly when validation is on.
C8_TeardownOrder ==
    pc = "dropped" =>
        LET stage == [i \in DOMAIN log |-> DropStage(log[i])]
        IN
        /\ log[1] = Call("wait_idle", "device", 0, 0)
        /\ \A i \in DOMAIN stage :
              /\ stage[i] # 0
              /\ i > 1 => stage[i - 1] <= stage[i] /\ stage[i] # 1
        /\ \A t \in (1 .. 15) \ {13} : \E i \in DOMAIN stage : stage[i] = t
        /\ validation <=> (\E i \in DOMAIN stage : stage[i] = 13)

\* a validation build was dropped after a panic of the frame loop
C8_Witness ==
    /\ pc = "dropped"
    /\ validation
    /\ panicked
    /\ swapchain_status = "destroyed"
    /\ log[Len(log)] = Call("destroy", "instance", 0, 0)

\* ---------------------------------------------------------------------------
\* Command buffers
\* ---------------------------------------------------------------------------
\* C9 as stated: the command buffer recorded and submitted in a frame is the
\* one indexed by the image index that frame's acquire returned, not the one
\* indexed by the frame slot.
C9_Original ==
    pc = "submitted" => submitted = image_index /\ recorded \subseteq {image_index}

\* the command buffers the loop is about to record, or has just recorded;
\* main.rs, when zooming, reallocates one per framebuffer and records them all
RecordTargets ==
    IF pc = "recorded" THEN recorded
    ELSE IF variant = "main" THEN 0 .. (Len(bundle.framebuffers) - 1)
    ELSE {loop_buffer_index(variant, current_frame, image_index)}

\* C10: from the return of the wait on slot f's fence until the submit, slot f
\* has no submission pending on the queue (so its semaphores are free of queue
\* work), and no command buffer the loop records has a pending submission.
C10_NoRecordWhilePending ==
    /\ pc \in {"waited", "acquired", "reset", "recorded"}
          => Outstanding(current_frame) = {}
    /\ pc \in {"reset", "recorded"}
          => \A c \in RecordTargets : PendingOn(c) = {}

\* slot 1's buffer was recorded while slot 0's submission was still pending
C10_Witness ==
    /\ pc = "recorded"
    /\ variant = "cube"
    /\ current_frame = 1
    /\ recorded = {1}
    /\ PendingOn(0) # {}

\* ---------------------------------------------------------------------------
\* The calls of one frame
\* ---------------------------------------------------------------------------
\* positions in calls of the calls named op
FrameCalls(op) == {i \in DOMAIN calls : calls[i].op = op}

\* results with which acquire_next_image hands back an image index
OkResults == {"Ok", "OkSuboptimal"}

\* C11: a frame submits once, one command buffer that exists; the submit waits
\* on image_available[f] at COLOR_ATTACHMENT_OUTPUT, signals render_finished[f]
\* and passes in_flight[f], where f is the current slot, the slot of this
\* iteration's wait, acquire and reset, which precede the submit in that order.
C11_SubmitUsesSlot ==
    /\ Cardinality(FrameCalls("submit")) <= 1
    /\ pc = "submitted" => FrameCalls("submit") = {Len(calls)}
    /\ \A s \in FrameCalls("submit") :
          /\ calls[s].wait = current_frame
          /\ calls[s].stage = "COLOR_ATTACHMENT_OUTPUT"
          /\ calls[s].signal = current_frame
          /\ calls[s].fence = current_frame
          /\ calls[s].cb \in 0 .. (command_buffers - 1)
          /\ s >= 4
          /\ calls[1] = wait_call(current_frame)
          /\ calls[2].op = "acquire" /\ calls[2].signal = current_frame
          /\ calls[3] = reset_call(current_frame)
          /\ \A i \in 4 .. (s - 1) : calls[i].op = "record"

\* slot 1 of mandelbrot.rs was submitted for image 0
C11_Witness ==
    /\ pc = "submitted"
    /\ variant = "mandelbrot"
    /\ current_frame = 1
    /\ image_index = 0
    /\ calls[Len(calls)] = submit_call(1)

\* C12: a present is the last call of its iteration and comes after an acquire
\* that returned an image and after the submit; it presents that image on the
\* swapchain it was acquired from and waits on the semaphore the submit
\* signals; the loop reaches the present only with such an acquire and submit
\* behind it, and an acquire without an image ends the iteration's calls.
C12_AcquireSubmitPresent ==
    /\ \A p \in FrameCalls("present") :
          /\ p = Len(calls)
          /\ FrameCalls("submit") = {p - 1}
          /\ FrameCalls("acquire") = {2}
          /\ calls[2].result \in OkResults
          /\ calls[p].image = calls[2].image
          /\ calls[p].swapchain = calls[2].swapchain
          /\ calls[p].wait = calls[p - 1].signal
    /\ pc = "submitted" =>
          /\ FrameCalls("present") = {}
          /\ FrameCalls("submit") = {Len(calls)}
          /\ FrameCalls("acquire") = {2}
          /\ calls[2].result \in OkResults
          /\ calls[2].image = image_index
          /\ calls[2].swapchain = bundle.swapchain
    /\ \A a \in FrameCalls("acquire") :
          calls[a].result \notin OkResults => a = Len(calls)

\* the present of image 2 in slot 0 came back out of date
C12_Witness ==
    /\ pc = "recreate"
    /\ from = "present"
    /\ current_frame = 0
    /\ calls[Len(calls)].op = "present"
    /\ calls[Len(calls)].image = 2
    /\ calls[Len(calls)].result = "ErrOutOfDate"

\* ---------------------------------------------------------------------------
\* The slot index and the results of acquire and present
\* ---------------------------------------------------------------------------
\* the handler returns from an iteration that submitted
SubmittedFrameEnds ==
    /\ pc' = "idle"
    /\ pc = "submitted" \/ (pc = "recreate" /\ from = "present")

\* C13 as stated: every iteration that submitted for slot f leaves the slot
\* at (f + 1) mod MAX_FRAMES_IN_FLIGHT, whatever the present result.
C13_Original ==
    [][SubmittedFrameEnds
         => current_frame' = (current_frame + 1) % MAX_FRAMES_IN_FLIGHT]_vars

\* what acquire and present report for a swapchain that no longer fits
StaleResults == {"ErrOutOfDate", "OkSuboptimal", "ErrSuboptimal"}

\* C14 as stated: whichever of out-of-date and suboptimal present_image
\* reports, the loop takes the arm that calls recreate_swapchain.
C14_Original ==
    pc = "submitted" =>
        \A r \in ApiResultsOf(variant) \cap StaleResults :
            present_match(variant, r) = "recreate"

\* C15: an acquire or present result other than out-of-date and suboptimal
\* takes the panic arm in every loop, and the only errors that take another
\* arm are those two; a call that came back with such a result is the last
\* call of the handler, the program is unwinding or gone, and the bundle is
\* still the one the call was made on.
C15_OtherFailuresAbort ==
    /\ \A r \in ApiResultsOf(variant) :
          /\ r = "ErrOther" =>
                /\ acquire_match(variant, r) = "panic"
                /\ present_match(variant, r) = "panic"
          /\ (/\ r \notin OkResults
              /\ \/ acquire_match(variant, r) # "panic"
                 \/ present_match(variant, r) # "panic")
                => r \in {"ErrOutOfDate", "ErrSuboptimal"}
    /\ panicked => pc \in {"dropping", "dropped"}
    /\ \A i \in DOMAIN calls :
          calls[i].result = "ErrOther" =>
              /\ i = Len(calls)
              /\ panicked
              /\ pc \in {"dropping", "dropped"}
              /\ calls[i].swapchain = recreations
              /\ bundle.swapchain = recreations

\* a present failed with another error after a recreation, with the other
\* slot's frame still on the queue, and the program is unwinding
C15_Witness ==
    /\ pc = "dropping"
    /\ panicked
    /\ recreations > 0
    /\ queue # <<>>
    /\ calls[Len(calls)].op = "present"
    /\ calls[Len(calls)].result = "ErrOther"

\* C16 as stated, with suboptimal among the retryable conditions: whenever an
\* acquire reports out-of-date or suboptimal the loop goes to
\* recreate_swapchain with nothing recorded or submitted.
C16_Original ==
    [][(/\ pc = "waited"
        /\ pc' # "waited"
        /\ calls'[Len(calls')].result \in StaleResults)
           => (pc' = "recreate" /\ recorded' = {} /\ submitted' = NoImage)]_vars

\* ---------------------------------------------------------------------------
\* Device, memory type, extent and format selection
\* ---------------------------------------------------------------------------
\* the largest score among the devices
MaxScore(devices) ==
    LET scores == {device_suitability(devices[i]) : i \in DOMAIN devices}
    IN  CHOOSE m \in scores : \A x \in scores : x <= m

\* C17 as stated: for a non-empty list find_physical_device fails, with "No
\* suitable GPU could be found!", exactly when the largest score is zero, and
\* otherwise returns a device of the largest score.
C17_Original ==
    (arg.fn = "find_physical_device" /\ arg.devices # <<>> /\ ret # <<>>) =>
        LET r == ret[1]
        IN  /\ r.result = "panic" <=> MaxScore(arg.devices) = 0
            /\ r.result = "panic" => r.message = "No suitable GPU could be found!"
            /\ r.result = "ok" =>
                  device_suitability(arg.devices[r.physical_device])
                      = MaxScore(arg.devices)

\* memory type i passes the filter and has every requested property
Fits(i) ==
    /\ FilterBit(arg.type_filter, i)
    /\ arg.properties \subseteq arg.memory_types[i]

\* C18: find_memory_type returns the lowest index whose filter bit is set and
\* whose flags contain the requested properties, together with that memory
\* type, and returns Err exactly when no index is like that.
C18_LowestMatchingType ==
    (arg.fn = "find_memory_type" /\ ret # <<>>) =>
        LET r == ret[1]
        IN  /\ r.ok <=> \E i \in DOMAIN arg.memory_types : Fits(i)
            /\ r.ok =>
                  /\ r.value[1] \in DOMAIN arg.memory_types
                  /\ Fits(r.value[1])
                  /\ \A j \in DOMAIN arg.memory_types : j < r.value[1] => ~Fits(j)
                  /\ r.value[2] = arg.memory_types[r.value[1]]
            /\ ~r.ok => r.error = "No suitable memory type found!"

\* the filter rules out the lowest type with the requested properties and the
\* search went on to a later one
C18_Witness ==
    /\ arg.fn = "find_memory_type"
    /\ ret # <<>>
    /\ ret[1].ok
    /\ ret[1].value[1] = 2
    /\ arg.properties = {"HOST_VISIBLE"}
    /\ arg.properties \subseteq arg.memory_types[0]
    /\ ~FilterBit(arg.type_filter, 0)

\* x brought into lo .. hi
Clamped(r, x, lo, hi) ==
    /\ ~lt(r, lo) /\ ~lt(hi, r)
    /\ lt(x, lo) => r = lo
    /\ lt(hi, x) => r = hi
    /\ (~lt(x, lo) /\ ~lt(hi, x)) => r = x

\* C19: with a fixed current extent (its width is not u32::MAX) the result is
\* that extent whatever the window size; otherwise width and height are the
\* window's, each clamped into [min_image_extent, max_image_extent].
C19_ExtentFixedOrClamped ==
    (arg.fn = "choose_swap_extent" /\ ret # <<>>) =>
        LET r == ret[1]
            c == arg.capabilities
        IN  IF c.current_extent.width # U32_MAX
            THEN r = c.current_extent
            ELSE /\ Clamped(r.width, arg.window_size.width,
                            c.min_image_extent.width, c.max_image_extent.width)
                 /\ Clamped(r.height, arg.window_size.height,
                            c.min_image_extent.height, c.max_image_extent.height)

\* a window too narrow and too tall for the surface: the width was raised to
\* the minimum and the height cut to the maximum
C19_Witness ==
    /\ arg.fn = "choose_swap_extent"
    /\ ret # <<>>
    /\ arg.capabilities.current_extent.width = U32_MAX
    /\ lt(arg.window_size.width, arg.capabilities.min_image_extent.width)
    /\ lt(arg.capabilities.max_image_extent.height, arg.window_size.height)
    /\ ret[1] = Extent2D(arg.capabilities.min_image_extent.width,
                         arg.capabilities.max_image_extent.height)

\* entry i of the list is the preferred pair
Preferred(i) == arg.formats[i] = PreferredFormat

\* C20: for a non-empty list choose_swap_surface_format returns the first
\* entry equal to (R8G8B8A8_SRGB, SRGB_NONLINEAR) when there is one and the
\* first entry otherwise; the result is an entry of the list, and a second
\* call on the same list returns the same format.
C20_FormatChoice ==
    (arg.fn = "choose_swap_surface_format" /\ arg.formats # <<>>) =>
        /\ \A n \in DOMAIN ret :
              /\ \E i \in DOMAIN arg.formats : ret[n] = arg.formats[i]
              /\ (\E i \in DOMAIN arg.formats : Preferred(i)) => ret[n] = PreferredFormat
              /\ (\A i \in DOMAIN arg.formats : ~Preferred(i)) => ret[n] = arg.formats[1]
        /\ \A m, n \in DOMAIN ret : ret[m] = ret[n]

\* the preferred pair stands last in a full list and was chosen twice
C20_Witness ==
    /\ arg.fn = "choose_swap_surface_format"
    /\ Len(arg.formats) = MaxFormats
    /\ Preferred(MaxFormats)
    /\ ~Preferred(1)
    /\ ret = <<PreferredFormat, PreferredFormat>>

\* ---------------------------------------------------------------------------
\* Managed buffers and images
\* ---------------------------------------------------------------------------
\* the object as it was before the n-th call on it
Before(n) == IF n = 1 THEN arg.object ELSE ret[n - 1].object

\* the place of a device call in "unmap, free, destroy"
DropRank(c) ==
    CASE c.op = "unmap" -> 1
      [] c.op = "free" -> 2
      [] c.op = "destroy" -> 3
      [] OTHER -> 0

\* C21: the drop of a ManagedBuffer issues unmap_memory exactly when the buffer
\* is mapped, free_memory exactly when it has memory, and destroy_buffer, in
\* this order and each at most once, all on that buffer.
C21_BufferDropOrder ==
    arg.fn = "ManagedBuffer" =>
        \A n \in DOMAIN ret :
            arg.ops[n] = "drop" =>
                LET c == ret[n].calls
                IN  /\ \A i \in DOMAIN c : c[i].obj = "buffer" /\ DropRank(c[i]) > 0
                    /\ \A i, j \in DOMAIN c : i < j => DropRank(c[i]) < DropRank(c[j])
                    /\ (\E i \in DOMAIN c : c[i].op = "unmap") <=> Before(n).memory_ptr
                    /\ (\E i \in DOMAIN c : c[i].op = "free") <=> Before(n).buffer_memory
                    /\ c # <<>> /\ c[Len(c)].op = "destroy"

\* a buffer was mapped and then dropped: all three calls were issued
C21_Witness ==
    /\ arg.fn = "ManagedBuffer"
    /\ ~arg.object.memory_ptr
    /\ arg.ops = <<"map", "drop">>
    /\ Len(ret) = 2
    /\ Len(ret[2].calls) = 3

\* C22 as stated: the drop of a ManagedImage destroys the image view, then the
\* image, and after both frees the memory (unmapped before, if it was mapped).
C22_Original ==
    arg.fn = "ManagedImage" =>
        \A n \in DOMAIN ret :
            arg.ops[n] = "drop" =>
                LET c == ret[n].calls
                IN  \A i, j \in DOMAIN c :
                        /\ (c[i].obj = "image_view" /\ c[j].obj = "image") => i < j
                        /\ (c[i].op = "destroy" /\ c[j].op = "free") => i < j
                        /\ (c[i].op = "unmap" /\ c[j].op = "free") => i < j

\* C23: map on an object that is already mapped, map on an object without
\* memory and unmap on an object that is not mapped each panic, issue no device
\* call and leave the fields as they were; a map that passes the guards issues
\* one map_memory and sets memory_ptr.
C23_MappingGuards ==
    arg.fn \in {"ManagedBuffer", "ManagedImage"} =>
        \A n \in DOMAIN ret :
            LET before == Before(n)
                memory == IF arg.fn = "ManagedBuffer"
                          THEN before.buffer_memory ELSE before.image_memory
                refused == /\ ret[n].panic # NoPanic
                           /\ ret[n].calls = <<>>
                           /\ ret[n].object = before
            IN  /\ (arg.ops[n] = "map" /\ (before.memory_ptr \/ ~memory)) => refused
                /\ (arg.ops[n] = "unmap" /\ ~before.memory_ptr) => refused
                /\ (arg.ops[n] = "map" /\ ~before.memory_ptr /\ memory) =>
                      /\ ret[n].panic = NoPanic
                      /\ Len(ret[n].calls) = 1
                      /\ ret[n].calls[1].op = "map"
                      /\ ret[n].object.memory_ptr

\* an image was mapped, and the second map was refused
C23_Witness ==
    /\ arg.fn = "ManagedImage"
    /\ arg.ops = <<"map", "map">>
    /\ Len(ret) = 2
    /\ ret[1].panic = NoPanic
    /\ ret[2].panic = "Attempt to re-map image memory!"

\* ---------------------------------------------------------------------------
\* What a recreation leaves alone
\* ---------------------------------------------------------------------------
\* C24 as stated: whenever the handler is at the event loop with a bundle,
\* after BaseApp::new and after every recreate_swapchain, there are as many
\* command buffers as swapchain images.
C24_Original ==
    (pc = "idle" /\ bundle.image_views # <<>>) =>
        command_buffers = Len(bundle.image_views)

\* the objects BaseApp::new makes that do not depend on the swapchain
LongLived ==
    {"vertex_buffer", "index_buffer", "uniform_buffer", "texture", "texture_view",
     "texture_sampler", "command_pool", "descriptor_pool",
     "image_available", "render_finished", "in_flight"}

\* C25: no device call of recreate_swapchain, returning or failing, creates,
\* destroys, frees, maps or unmaps a vertex, index or uniform buffer, the
\* texture, its sampler, the command pool, the descriptor pool or a sync
\* primitive; Drop releases every one of them, each handle destroyed once,
\* before destroy_device.
C25_RecreateLeavesLongLived ==
    /\ device_alive => \A i \in DOMAIN log : log[i].obj \notin LongLived
    /\ pc = "dropped" =>
          /\ \A o \in LongLived : Destroys({o}) # {}
          /\ \A i \in Destroys(LongLived), p \in DestroyDevice : i < p
          /\ \A i, j \in Destroys(LongLived) :
                (log[i] = log[j]) => i = j

\* mandelbrot.rs is back at the event loop after a recreation that replaced
\* the swapchain and touched none of the long-lived objects
C25_Witness ==
    /\ RecreateLogged
    /\ variant = "mandelbrot"
    /\ pc = "idle"
    /\ recreations >= 1
    /\ Creates({"swapchain"}) # {}
    /\ Destroys({"swapchain"}) # {}

\* positions in log of the calls on uniform buffer number i
UniformCalls(i) == {k \in DOMAIN log : log[k].obj = "uniform_buffer" /\ log[k].idx = i}

\* what create_uniform_buffers hands back, whatever the program does later:
\* count buffers, each mapped by one map_memory, and for BaseApp
\* MAX_FRAMES_IN_FLIGHT of them with memory and memory_ptr set
UniformBuffersMapped ==
    /\ \A count \in 0 .. (2 * MAX_FRAMES_IN_FLIGHT) :
          /\ Len(create_uniform_buffers(count)) = count
          /\ \A i \in 1 .. count :
                LET made == create_uniform_buffers(count)[i]
                IN  /\ made.panic = NoPanic
                    /\ made.calls = <<Call("map", "uniform_buffer", 0, i - 1)>>
                    /\ made.object.memory_ptr
    /\ Len(uniform_buffers) = MAX_FRAMES_IN_FLIGHT
    /\ \A i \in DOMAIN uniform_buffers :
          uniform_buffers[i].memory_ptr /\ uniform_buffers[i].buffer_memory

\* C28: create_uniform_buffers(count) returns count buffers, each mapped by one
\* map_memory; BaseApp holds MAX_FRAMES_IN_FLIGHT of them with memory_ptr set;
\* while the device lives neither the frame loop nor recreate_swapchain issues
\* a call on a uniform buffer, and Drop unmaps each once, then frees and
\* destroys it.
C28_UniformBuffersStayMapped ==
    /\ UniformBuffersMapped
    /\ device_alive => \A f \in Slots : UniformCalls(f) = {}
    /\ \A k \in DOMAIN calls : calls[k].op \notin {"map", "unmap"}
    /\ pc = "dropped" =>
          \A f \in Slots :
              \E k \in UniformCalls(f) :
                  /\ UniformCalls(f) = {k, k + 1, k + 2}
                  /\ log[k].op = "unmap"
                  /\ log[k + 1].op = "free"
                  /\ log[k + 2].op = "destroy"

\* cube.rs recorded slot 1's frame on a rebuilt bundle, its uniform buffer
\* still mapped and untouched by the recreation
C28_Witness ==
    /\ variant = "cube"
    /\ pc = "recorded"
    /\ current_frame = 1
    /\ recreations >= 1
    /\ log # <<>>
    /\ uniform_buffers[2].memory_ptr

\* ---------------------------------------------------------------------------
\* Image count and queue families, in engine_core and in lib.rs
\* ---------------------------------------------------------------------------
\* C29: the image count asked for is min_image_count + 1, brought down to
\* max_image_count exactly when that is nonzero and smaller; it is never below
\* min_image_count and never above a nonzero max_image_count. Stated of both
\* places that compute it, create_swapchain and init_vulkan.
C29_Original ==
    (arg.fn \in {"create_swapchain::image_count", "init_vulkan::image_count"} /\ ret # <<>>) =>
        LET lo == arg.capabilities.min_image_count
            hi == arg.capabilities.max_image_count
        IN  /\ ret[1] = (IF hi # 0 /\ hi < lo + 1 THEN hi ELSE lo + 1)
            /\ ret[1] >= lo
            /\ hi # 0 => ret[1] <= hi

\* C30: find_queue_families returns the lowest family with graphics and,
\* independently, the lowest family that can present, and None exactly when
\* no family has graphics or none can present. Stated of both places that
\* define it, phys_device.rs and init_vulkan.
C30_Original ==
    (arg.fn \in {"find_queue_families", "init_vulkan::find_queue_families"} /\ ret # <<>>) =>
        LET families == arg.queue_family_properties
            \* the indices of the families that satisfy a test
            Supporting(list, capability) ==
                {i \in 0 .. (Len(list) - 1) : list[i + 1][capability]}
            Lowest(S) == CHOOSE i \in S : \A j \in S : i <= j
            graphics == Supporting(families, "graphics")
            present == Supporting(families, "present")
            indices == IF ret[1] = None THEN None
                       ELSE IF arg.fn = "find_queue_families"
                            THEN Some(<<ret[1][1].graphics_queue, ret[1][1].present_queue>>)
                            ELSE ret[1]
        IN  indices = (IF graphics = {} \/ present = {} THEN None
                       ELSE Some(<<Lowest(graphics), Lowest(present)>>))

\* ---------------------------------------------------------------------------
\* Uploads in BaseApp::new
\* ---------------------------------------------------------------------------
\* where in ret the calls with this name on command buffer cb are
Pos(op, cb) == {i \in DOMAIN ret : ret[i].op = op /\ ret[i].cb = cb}

\* C26: during BaseApp::new every immediate submission allocates one temporary
\* command buffer, begins it, records, ends, submits, waits for the queue to
\* idle and frees it, each once and in that order, one submission at a time;
\* a staging buffer is unmapped, freed or destroyed only after the copy out of
\* it was submitted and the queue went idle, and nothing copies from it later.
C26_StagingOutlivesCopy ==
    LET StagingBuffers == {"vertex_staging", "index_staging", "tex_staging"}
        CopyOps == {"cmd_copy_buffer", "cmd_copy_buffer_to_image"}
        \* the temporary command buffers seen so far
        TempCommandBuffers == {ret[i].cb : i \in DOMAIN ret} \ {0}
        \* the calls on command buffer cb before position n
        OnCb(cb, n) == {i \in 1 .. (n - 1) : ret[i].cb = cb}
        \* the queue went idle between positions s and n
        IdleBetween(s, n) == \E w \in (s + 1) .. (n - 1) : ret[w].op = "queue_wait_idle"
    IN  arg.fn = "BaseApp::new" =>
            /\ \A cb \in TempCommandBuffers :
                  /\ \A op \in {"allocate", "begin", "end", "submit", "free"} :
                        Cardinality(Pos(op, cb)) <= 1
                  /\ Pos("allocate", cb) # {}
                  /\ \A i \in Pos("begin", cb) : OnCb(cb, i) = Pos("allocate", cb)
                  /\ \A i \in DOMAIN ret :
                        (ret[i].cb = cb /\ ret[i].op \in CopyOps \cup {"cmd_pipeline_barrier"}) =>
                            /\ \E b \in Pos("begin", cb) : b < i
                            /\ \A e \in Pos("end", cb) : i < e
                  /\ \A i \in Pos("submit", cb) : \E e \in Pos("end", cb) : e < i
                  /\ \A i \in Pos("free", cb) :
                        /\ \A j \in DOMAIN ret : ret[j].cb = cb => j <= i
                        /\ \E s \in Pos("submit", cb) : s < i /\ IdleBetween(s, i)
                  /\ \A i \in Pos("allocate", cb) :
                        \A other \in TempCommandBuffers :
                            (OnCb(other, i) # {}) => \E f \in Pos("free", other) : f < i
                  /\ Len(ret) = Len(BaseApp_new_calls) => Pos("free", cb) # {}
            /\ \A i \in DOMAIN ret :
                  (ret[i].obj \in StagingBuffers /\ ret[i].op \in {"unmap", "free", "destroy"}) =>
                      /\ \E c \in 1 .. (i - 1) :
                            /\ ret[c].op \in CopyOps
                            /\ ret[c].from = ret[i].obj
                            /\ \E s \in Pos("submit", ret[c].cb) : c < s /\ IdleBetween(s, i)
                      /\ \A c \in DOMAIN ret :
                            (ret[c].op \in CopyOps /\ ret[c].from = ret[i].obj) => c < i
            /\ Len(ret) = Len(BaseApp_new_calls) =>
                  /\ Cardinality(TempCommandBuffers) = 5
                  /\ \A b \in StagingBuffers :
                        \E i \in DOMAIN ret : ret[i].obj = b /\ ret[i].op = "destroy"

\* BaseApp::new has dropped the texture's staging buffer
C26_Witness ==
    /\ arg.fn = "BaseApp::new"
    /\ \E i \in DOMAIN ret : ret[i].obj = "tex_staging" /\ ret[i].op = "destroy"

\* C27: during BaseApp::new the texture goes UNDEFINED, TRANSFER_DST_OPTIMAL,
\* SHADER_READ_ONLY_OPTIMAL; the copy into it is recorded and submitted only
\* while it is TRANSFER_DST_OPTIMAL, and it is SHADER_READ_ONLY_OPTIMAL before
\* update_descriptor_sets names it. transition_image_layout called with any
\* other pair of layouts panics and makes no device call.
C27_TextureLayouts ==
    LET IsBarrier(c) == c.op = "cmd_pipeline_barrier"
        recorded_barriers == SelectSeq(ret, IsBarrier)
        \* the barriers recorded so far, as (old layout, new layout)
        Barriers == [i \in DOMAIN recorded_barriers |->
                        <<recorded_barriers[i].from, recorded_barriers[i].to>>]
    IN
        /\ arg.fn = "BaseApp::new" =>
              /\ \E n \in 0 .. 2 :
                    Barriers = SubSeq(<<<<"UNDEFINED", "TRANSFER_DST_OPTIMAL">>,
                                        <<"TRANSFER_DST_OPTIMAL", "SHADER_READ_ONLY_OPTIMAL">>>>, 1, n)
              /\ image_layout("texture", ret) # "invalid"
              /\ \A i \in DOMAIN ret :
                    /\ ret[i].op = "cmd_copy_buffer_to_image" =>
                          /\ ret[i].to = "TRANSFER_DST_OPTIMAL"
                          /\ image_layout("texture", SubSeq(ret, 1, i)) = "TRANSFER_DST_OPTIMAL"
                    /\ (ret[i].op = "submit" /\ Pos("cmd_copy_buffer_to_image", ret[i].cb) # {}) =>
                          image_layout("texture", SubSeq(ret, 1, i)) = "TRANSFER_DST_OPTIMAL"
                    /\ ret[i].op = "update_descriptor_sets" =>
                          /\ ret[i].to = "SHADER_READ_ONLY_OPTIMAL"
                          /\ image_layout("texture", SubSeq(ret, 1, i - 1))
                                = "SHADER_READ_ONLY_OPTIMAL"
        /\ (arg.fn = "transition_image_layout" /\ ret # <<>>) =>
              IF <<arg.old_layout, arg.new_layout>> \in
                    {<<"UNDEFINED", "TRANSFER_DST_OPTIMAL">>,
                     <<"TRANSFER_DST_OPTIMAL", "SHADER_READ_ONLY_OPTIMAL">>}
              THEN /\ ret[1].panic = NoPanic
                   /\ \E i \in DOMAIN ret[1].calls :
                         /\ ret[1].calls[i].op = "cmd_pipeline_barrier"
                         /\ ret[1].calls[i].from = arg.old_layout
                         /\ ret[1].calls[i].to = arg.new_layout
              ELSE /\ ret[1].panic = "Image layout transition not supported!"
                   /\ ret[1].calls = <<>>

\* BaseApp::new wrote the descriptors with the texture in the layout for
\* shader reads
C27_Witness ==
    /\ arg.fn = "BaseApp::new"
    /\ ret # <<>>
    /\ ret[Len(ret)].op = "update_descriptor_sets"
    /\ image_layout("texture", ret) = "SHADER_READ_ONLY_OPTIMAL"

\* ---------------------------------------------------------------------------
\* memory_ptr and the device's view of the mapping
\* ---------------------------------------------------------------------------
\* whether the device has the object's memory mapped once the first n method
\* calls have been made: as memory_ptr said at the start, then as the last
\* map_memory or unmap_memory issued left it
RECURSIVE DeviceMapped(_)
DeviceMapped(n) ==
    IF n = 0 THEN arg.object.memory_ptr
    ELSE LET c == ret[n].calls
             maps == {i \in DOMAIN c : c[i].op \in {"map", "unmap"}}
         IN  IF maps = {} THEN DeviceMapped(n - 1)
             ELSE c[CHOOSE i \in maps : \A j \in maps : j <= i].op = "map"

\* C31 as stated: after any sequence of map and unmap calls memory_ptr is Some
\* exactly when the device has the memory mapped, an unmap is never issued for
\* memory that is not mapped, and after a successful unmap a map succeeds and
\* a second unmap panics.
C31_Original ==
    arg.fn \in {"ManagedBuffer", "ManagedImage"} =>
        \A n \in DOMAIN ret :
            /\ \A i \in DOMAIN ret[n].calls :
                  ret[n].calls[i].op = "unmap" => DeviceMapped(n - 1)
            /\ arg.ops[n] # "drop" => (ret[n].object.memory_ptr <=> DeviceMapped(n))
            /\ (n > 1 /\ arg.ops[n - 1] = "unmap" /\ ret[n - 1].panic = NoPanic) =>
                  /\ arg.ops[n] = "map" => ret[n].panic = NoPanic
                  /\ arg.ops[n] = "unmap" => ret[n].panic # NoPanic

\* ---------------------------------------------------------------------------
\* Handles destroyed twice
\* ---------------------------------------------------------------------------
\* C32 as stated: whenever recreate_swapchain or Drop issues device calls, no
\* bundle handle is destroyed twice among them, and none of them destroys a
\* bundle handle that the calls issued before them (by the recreate_swapchain
\* that ran last, returned or panicked) had already destroyed.
C32_Original ==
    [][ log' # log =>
          \A i \in DOMAIN log' :
              (log'[i].op = "destroy" /\ log'[i].obj \in BundleObjects) =>
                  /\ \A k \in DOMAIN log' : log'[k] = log'[i] => k = i
                  /\ \A j \in DOMAIN log : log[j] # log'[i] ]_vars

\* ---------------------------------------------------------------------------
\* Uniform buffer writes against the GPU
\* ---------------------------------------------------------------------------
\* cube.rs is at its write_struct_to_buffer into uniform_buffers[current_frame]
\* when the fence reset is behind it and record_command_buffer ahead
\* C33: when cube.rs writes uniform_buffers[current_frame], the GPU has no
\* submission of that slot left to execute, neither by its fence nor by its
\* command buffer; the handler has waited for the slot's fence in this
\* iteration and has not submitted yet, and the buffer is mapped.
C33_UniformWriteAfterFence ==
    (variant = "cube" /\ pc = "reset") =>
        /\ Outstanding(current_frame) = {}
        /\ PendingOn(current_frame) = {}
        /\ \E w \in FrameCalls("wait") : calls[w] = wait_call(current_frame)
        /\ FrameCalls("submit") = {}
        /\ uniform_buffers[current_frame + 1].memory_ptr

\* cube.rs writes slot 1's uniform buffer while the GPU still executes the
\* frame of slot 0
C33_Witness ==
    /\ variant = "cube"
    /\ pc = "reset"
    /\ current_frame = 1
    /\ queue # <<>>
    /\ \A i \in DOMAIN queue : queue[i].slot = 0

\* ---------------------------------------------------------------------------
\* Semaphores of a slot
\* ---------------------------------------------------------------------------
\* C34: image_available[current_frame] carries no signal when the handler is
\* about to call acquire_next_image with it, render_finished of the slot
\* carries none when the handler is about to submit, and between two
\* iterations no semaphore carries one; after any acquire and present result
\* the loops survive, and after recreations.
C34_SemaphorePairing ==
    /\ pc = "waited" => ~image_available[current_frame]
    /\ pc = "recorded" =>
          LET call == loop_submit_call(variant, current_frame, image_index)
          IN  call.signal \in Slots => ~render_finished[call.signal]
    /\ pc \in {"idle", "waiting", "recreate"} =>
          \A f \in Slots : ~image_available[f] /\ ~render_finished[f]
    /\ pc = "submitted" =>
          /\ \A f \in Slots : ~image_available[f]
          /\ \A f \in Slots : render_finished[f] <=> f = current_frame

\* after a recreation, with the other slot's frame still on the GPU, the
\* handler hands image_available[1] to acquire_next_image
C34_Witness ==
    /\ pc = "waited"
    /\ current_frame = 1
    /\ recreations >= 1
    /\ queue # <<>>
    /\ ~image_available[1]
    /\ variant = "mandelbrot"

\* ---------------------------------------------------------------------------
\* Indexing command_buffers
\* ---------------------------------------------------------------------------
\* C35 as stated: the index cube.rs and mandelbrot.rs are about to pass to
\* record_command_buffer, and the index any loop is about to submit, is below
\* command_buffers.len(), for every image count and after recreations.
C35_Original ==
    /\ (pc = "reset" /\ variant # "main") =>
          loop_buffer_index(variant, current_frame, image_index) < command_buffers
    /\ pc = "recorded" =>
          loop_submit_call(variant, current_frame, image_index).cb < command_buffers

\* ---------------------------------------------------------------------------
\* The device when recreate_swapchain returns
\* ---------------------------------------------------------------------------
\* C36: on every step in which recreate_swapchain returns to the event loop,
\* from the acquire arm, the present arm or a Resized event, the graphics
\* queue is empty and every in-flight fence is signaled.
C36_IdleAfterRecreate ==
    [][ (pc = "recreate" /\ pc' = "idle") =>
            /\ queue' = <<>>
            /\ \A f \in Slots : in_flight'[f] ]_vars

\* recreate_swapchain has returned to the event loop of cube.rs with the loop
\* at slot 1: the queue is empty and both fences are signaled
C36_Witness ==
    /\ variant = "cube"
    /\ pc = "idle"
    /\ recreations >= 1
    /\ current_frame = 1
    /\ log # <<>>
    /\ queue = <<>>
    /\ \A f \in Slots : in_flight[f]

\* ---------------------------------------------------------------------------
\* Sizes of the uploads
\* ---------------------------------------------------------------------------
\* C37 as stated: when the texture's staging buffer is made, its size and the
\* number of bytes written into it are both 4 * w * h, so the write stays
\* within the allocation; for a vertex or index upload the destination size,
\* the staging size and the copy size are equal.
C37_Original ==
    /\ (arg.fn = "texture_staging" /\ ret # <<>> /\ ret[1].panic = NoPanic) =>
          LET bytes == wrapping_mul(wrapping_mul(Digits(arg.w, 4), arg.h), 4)
              \* a is at most b, digit sequences of one length
              AtMost(a, b) ==
                  \/ a = b
                  \/ \E n \in DOMAIN a :
                        /\ a[n] < b[n]
                        /\ \A m \in (n + 1) .. Len(a) : a[m] = b[m]
          IN  /\ ret[1].memory_size = bytes
              /\ ret[1].written = bytes
              /\ AtMost(ret[1].written, ret[1].memory_size)
    /\ (arg.fn \in {"vertex_upload", "index_upload"} /\ ret # <<>>) =>
          /\ ret[1].dst = ret[1].staging
          /\ ret[1].staging = ret[1].copy
          /\ ret[1].copy = arg.size_of * arg.len

====
